---- MODULE Spec2Model ----
(***************************************************************************)
(* The capture-aggregate-store pipeline of claude-context:                 *)
(*   capture/buffer.py      ObservationBuffer (lock, drain, flush threads)  *)
(*   capture/aggregator.py  aggregate                                       *)
(*   storage/dynamo.py      write_observation, flush_observations           *)
(* Spec      : producers calling add()/flush() on one buffer whose flush    *)
(*             function is make_flush_fn's flush_fn, writing to one table.  *)
(* LatencySpec : Spec with the fairness of the code's scheduling.           *)
(* PipelineSpec : the same with a store whose calls all succeed.            *)
(* StoreSpec : concurrent writers calling write_observation on one table.   *)
(* FlushSpec : one flush_observations call whose writes return or raise.    *)
(* PoolSpec  : one flush_observations call on more records than workers,    *)
(*             whose writes return or never return.                         *)
(* EmptyBatchSpec : PipelineSpec begun with a flush function call on [].    *)
(* KeySpec   : write_observation for records whose keys hold delimiters.    *)
(* AggSpec   : aggregate applied to every short list of observations.       *)
(* AdapterSpec : requests served through a middleware, the Lambda wrapper    *)
(*             or the span processor, which record into the buffer.         *)
(* CliSpec   : the sync and hook commands calling fetch_service_data.       *)
(***************************************************************************)
EXTENDS Integers, Sequences, FiniteSets, TLC

\* ------------------------------------------------------------------ bounds
\* total add() calls and flush() calls made by the producer threads
MaxAdds == 2
MaxFlushes == 1
\* ticks of time.monotonic() the model lets pass
MaxTime == 2
\* ObservationBuffer(max_size=..., flush_interval=...), scaled down
max_size == 2
flush_interval == 2
\* the hook's --cache-minutes, in ticks of the clock
cache_minutes == 1
\* write_observation calls made in StoreSpec, and the largest call_count written
MaxWrites == 2
MaxCount == 2
\* records of one service in the table fetch_service_data reads, and the
\* largest page the store returns
MaxItems == 3
\* aggregated records of a batch handed to flush_observations in FlushSpec
MaxRecords == 4
\* store calls of one flush_observations call that never return
MaxHangs == 1
\* length of the observation lists given to aggregate in AggSpec
MaxLen == 3
\* characters of a caller, method or path template written in KeySpec
MaxChars == 2

\* ---------------------------------------------------------- program constants
ttl_days == 90
SecondsPerDay == 86400
\* the cap on the workers of flush_observations' ThreadPoolExecutor
PoolCap == 10

\* ------------------------------------------------------------------ values
\* str values that take part in key formatting are sequences of tokens
ServiceName == <<"svc">>
Method == <<"GET">>
PathTemplate == <<"/x">>

\* producer threads (request handlers calling add / flush)
Threads == {"t1", "t2"}
\* threads calling write_observation in StoreSpec
Writers == {"w1", "w2"}

None == "None"

\* datetime: whole seconds and microseconds
DateTime(s, u) == [sec |-> s, us |-> u]

\* datetime.__lt__
DtLess(a, b) == a.sec < b.sec \/ (a.sec = b.sec /\ a.us < b.us)

\* datetime.isoformat(): a string that keeps the microseconds
isoformat(dt) == <<"iso", dt.sec, dt.us>>

\* int((dt + timedelta(days=d)).timestamp()): epoch seconds, microseconds cut
TtlOf(dt, d) == dt.sec + d * SecondsPerDay

\* str(obs.status_code)
StrOfStatus(n) == <<"str", n>>

\* ------------------------------------------------------------- aggregate
KeyOfWithoutCaller(o) == <<o.service_name, o.method, o.path_template>>

\* key = (obs.service_name, obs.caller, obs.method, obs.path_template)
KeyOf(o) == <<o.service_name, o.caller, o.method, o.path_template>>

\* index of the group with key k in the insertion-ordered dict, 0 when unseen
RECURSIVE GroupIndex(_, _, _)
GroupIndex(groups, k, i) ==
  IF i > Len(groups) THEN 0
  ELSE IF KeyOf(groups[i]) = k THEN i
  ELSE GroupIndex(groups, k, i + 1)

NewGroupUncounted(obs) ==
  [service_name |-> obs.service_name, caller |-> obs.caller,
   method |-> obs.method, path_template |-> obs.path_template,
   request_fields |-> obs.request_fields,
   request_headers |-> obs.request_headers,
   query_params |-> obs.query_params,
   response_codes |-> {StrOfStatus(obs.status_code)},
   call_count |-> 0,
   first_seen |-> obs.timestamp, last_seen |-> obs.timestamp]

\* key not in groups: a new AggregatedObservation seeded from obs
NewGroup(obs) ==
  [service_name |-> obs.service_name, caller |-> obs.caller,
   method |-> obs.method, path_template |-> obs.path_template,
   request_fields |-> obs.request_fields,
   request_headers |-> obs.request_headers,
   query_params |-> obs.query_params,
   response_codes |-> {StrOfStatus(obs.status_code)},
   call_count |-> 1,
   first_seen |-> obs.timestamp, last_seen |-> obs.timestamp]

IncrCountLost(n) == n

\* agg.call_count += 1
IncrCount(n) == n + 1

MergeGroupKeepsSets(agg, obs) ==
  [agg EXCEPT
   !.call_count = IncrCount(@),
   !.first_seen = IF DtLess(obs.timestamp, @) THEN obs.timestamp ELSE @,
   !.last_seen = IF DtLess(@, obs.timestamp) THEN obs.timestamp ELSE @]

MergeGroupLastWins(agg, obs) ==
  [agg EXCEPT
   !.request_fields = @ \cup obs.request_fields,
   !.request_headers = @ \cup obs.request_headers,
   !.query_params = @ \cup obs.query_params,
   !.response_codes = @ \cup {StrOfStatus(obs.status_code)},
   !.call_count = IncrCount(@),
   !.last_seen = obs.timestamp]

\* key in groups: merge obs into the existing AggregatedObservation
MergeGroup(agg, obs) ==
  [agg EXCEPT
   !.request_fields = @ \cup obs.request_fields,
   !.request_headers = @ \cup obs.request_headers,
   !.query_params = @ \cup obs.query_params,
   !.response_codes = @ \cup {StrOfStatus(obs.status_code)},
   !.call_count = IncrCount(@),
   !.first_seen = IF DtLess(obs.timestamp, @) THEN obs.timestamp ELSE @,
   !.last_seen = IF DtLess(@, obs.timestamp) THEN obs.timestamp ELSE @]

AggregateStepOverwrites(groups, obs) ==
  LET i == GroupIndex(groups, KeyOf(obs), 1)
  IN IF i = 0 THEN Append(groups, NewGroup(obs))
     ELSE [groups EXCEPT ![i] = NewGroup(obs)]

\* one iteration of the loop of aggregate
AggregateStep(groups, obs) ==
  LET i == GroupIndex(groups, KeyOf(obs), 1)
  IN IF i = 0 THEN Append(groups, NewGroup(obs))
     ELSE [groups EXCEPT ![i] = MergeGroup(groups[i], obs)]

RECURSIVE AggregateFrom(_, _, _)
AggregateFrom(groups, observations, i) ==
  IF i > Len(observations) THEN groups
  ELSE AggregateFrom(AggregateStep(groups, observations[i]), observations, i + 1)

\* aggregate(observations): list(groups.values())
aggregate(observations) == AggregateFrom(<<>>, observations, 1)

\* ------------------------------------------------ the table (DynamoDB items)
\* an item is a function from the names of the attributes it has to their values
NoItem == [x \in {} |-> x]

\* item[a] = v
Put(f, a, v) == (a :> v) @@ f

TableGet(tbl, key) == IF key \in DOMAIN tbl THEN tbl[key] ELSE NoItem

\* one clause of an UpdateExpression
Clause(action, attr, value) == [action |-> action, attr |-> attr, value |-> value]

\* "SET a = :v", "SET a = if_not_exists(a, :v)", "ADD a :v" on a number or a set,
\* evaluated against the item as it was before the update
ClauseValue(old, c) ==
  IF c.action = "SET" THEN c.value
  ELSE IF c.action = "SET_IF_NOT_EXISTS"
    THEN (IF c.attr \in DOMAIN old THEN old[c.attr] ELSE c.value)
  ELSE IF c.action = "ADD_NUMBER"
    THEN (IF c.attr \in DOMAIN old THEN old[c.attr] + c.value ELSE c.value)
  ELSE (IF c.attr \in DOMAIN old THEN old[c.attr] \cup c.value ELSE c.value)

RECURSIVE ApplyClauses(_, _, _, _)
ApplyClauses(item, old, clauses, i) ==
  IF i > Len(clauses) THEN item
  ELSE ApplyClauses(Put(item, clauses[i].attr, ClauseValue(old, clauses[i])),
                    old, clauses, i + 1)

\* DynamoDB rejects ADD on an empty String Set (ValidationException)
Rejects(req) ==
  \E i \in 1..Len(req.clauses) :
    req.clauses[i].action = "ADD_SET" /\ req.clauses[i].value = {}

\* table.update_item: one atomic update of the item under req.Key, created with
\* its key attributes when absent
UpdatedItem(old, req) ==
  LET base == IF DOMAIN old = {}
              THEN [PK |-> req.Key.PK, SK |-> req.Key.SK] ELSE old
  IN ApplyClauses(base, old, req.clauses, 1)

UpdateItem(tbl, req) ==
  IF Rejects(req) THEN tbl
  ELSE LET new == UpdatedItem(TableGet(tbl, req.Key), req)
       IN [k \in DOMAIN tbl \cup {req.Key} |-> IF k = req.Key THEN new ELSE tbl[k]]

\* ------------------------------------------------------ write_observation
StoreKeyUndelimited(agg) ==
  [PK |-> <<"SERVICE", "#">> \o agg.service_name,
   SK |-> <<"CALLER", "#">> \o agg.caller \o agg.method
          \o <<"#">> \o agg.path_template]

\* pk = f"SERVICE#{...}", sk = f"CALLER#{caller}#{method}#{path_template}"
StoreKey(agg) ==
  [PK |-> <<"SERVICE", "#">> \o agg.service_name,
   SK |-> <<"CALLER", "#">> \o agg.caller \o <<"#">> \o agg.method
          \o <<"#">> \o agg.path_template]

FirstSeenOverwritten(agg) == Clause("SET", "first_seen", isoformat(agg.first_seen))

\* "first_seen = if_not_exists(first_seen, :first_seen)"
FirstSeenPart(agg) ==
  Clause("SET_IF_NOT_EXISTS", "first_seen", isoformat(agg.first_seen))

SetPartsKeepLastSeen(agg, days) ==
  << Clause("SET_IF_NOT_EXISTS", "last_seen", isoformat(agg.last_seen)),
     FirstSeenPart(agg),
     Clause("SET_IF_NOT_EXISTS", "ttl", TtlOf(agg.last_seen, days)) >>

\* set_parts
SetParts(agg, days) ==
  << Clause("SET", "last_seen", isoformat(agg.last_seen)),
     FirstSeenPart(agg),
     Clause("SET", "ttl", TtlOf(agg.last_seen, days)) >>

CountOverwritten(agg) == Clause("SET", "call_count", agg.call_count)

\* add_parts = ["call_count :count"]
CountPart(agg) == Clause("ADD_NUMBER", "call_count", agg.call_count)

UnguardedAdd(attr, names) == << Clause("ADD_SET", attr, names) >>

SetInsteadOfAdd(attr, names) ==
  IF names # {} THEN << Clause("SET", attr, names) >> ELSE << >>

\* "if agg.<set>: add_parts.append(...)"
GuardedAdd(attr, names) ==
  IF names # {} THEN << Clause("ADD_SET", attr, names) >> ELSE << >>

AddParts(agg) ==
  << CountPart(agg) >>
  \o GuardedAdd("request_fields", agg.request_fields)
  \o GuardedAdd("request_headers", agg.request_headers)
  \o GuardedAdd("query_params", agg.query_params)
  \o GuardedAdd("response_codes", agg.response_codes)

SplitUpdateRequests(agg, days) ==
  << [Key |-> StoreKey(agg), clauses |-> SetParts(agg, days)],
     [Key |-> StoreKey(agg), clauses |-> AddParts(agg)] >>

\* the update_item calls of one write_observation, in order: one call whose
\* UpdateExpression is "SET <set_parts> ADD <add_parts>"
UpdateRequests(agg, days) ==
  << [Key |-> StoreKey(agg), clauses |-> SetParts(agg, days) \o AddParts(agg)] >>

\* write_observation raises when the store rejects a call
WriteRaises(agg, days) ==
  \E i \in 1..Len(UpdateRequests(agg, days)) : Rejects(UpdateRequests(agg, days)[i])

RECURSIVE ApplyRequests(_, _, _)
ApplyRequests(tbl, reqs, i) ==
  IF i > Len(reqs) \/ Rejects(reqs[i]) THEN tbl
  ELSE ApplyRequests(UpdateItem(tbl, reqs[i]), reqs, i + 1)

\* the table after a whole write_observation(table, agg, ttl_days) ran alone
write_observation(tbl, agg, days) == ApplyRequests(tbl, UpdateRequests(agg, days), 1)

\* ------------------------------------------------------------------ state
VARIABLES
  observations,  \* ObservationBuffer._observations
  lock,          \* ObservationBuffer._lock: the thread holding it, or None
  last_flush,    \* ObservationBuffer._last_flush
  now,           \* time.monotonic()
  pc,            \* where each producer thread is in add() / flush()
  arg,           \* the Observation each producer thread is adding
  runs,          \* the _safe_flush(batch) calls made so far, one record each
  table,         \* the DynamoDB table: key -> item
  nAdds,         \* add() calls made
  nFlushes,      \* flush() calls made
  added,         \* history: the observations in the order they were appended
  raised,        \* history: threads out of whose add()/flush() an exception came
  clean,         \* history: threads in a flush() begun after every add() returned
  finalFlush,    \* history: such a flush() returned and no add() began since
  wpc,           \* StoreSpec: where each writer is in write_observation
  wagg,          \* StoreSpec: the AggregatedObservation each writer is writing,
                 \*            None outside a call
  wnext,         \* StoreSpec: index of the writer's next update_item call
  nWrites,       \* StoreSpec: write_observation calls made
  written,       \* history: the AggregatedObservations written, in the order of
                 \*          their (first) update_item call
  adapter,       \* AdapterSpec: the adapter that owns the buffer
  request,       \* AdapterSpec: the request each thread is serving through it
  stored,        \* CliSpec: the table as query reads it, in key order
  fetch,         \* CliSpec: the fetch_service_data call
  cmd,           \* CliSpec: the sync or hook command
  cache_file     \* CliSpec: the hook's .claude/.cc-last-sync file

bufVars == <<observations, lock, last_flush, now, pc, arg, runs, nAdds, nFlushes,
             added, raised, clean, finalFlush>>
storeVars == <<wpc, wagg, wnext, nWrites, written>>
cliVars == <<stored, fetch, cmd, cache_file>>
callerVars == <<adapter, request, cliVars>>
vars == <<bufVars, table, storeVars, callerVars>>

\* ------------------------------------------------------- ObservationBuffer
\* the Observations the adapters hand to add(); id is the object's identity
ObsShapes ==
  { [caller |-> <<"a">>, request_fields |-> {"f1"}, request_headers |-> {},
     query_params |-> {}, status_code |-> 200],
    [caller |-> <<"a">>, request_fields |-> {"f2"}, request_headers |-> {"h1"},
     query_params |-> {}, status_code |-> 500],
    [caller |-> <<"b">>, request_fields |-> {}, request_headers |-> {},
     query_params |-> {}, status_code |-> 200] }

\* a thread that is serving no request
IdleRequest == [at |-> "idle", host |-> None, failure |-> None, handed |-> None]

\* no fetch_service_data call and no command has been made
\* response.get("LastEvaluatedKey") when the response has none
NoKey == [PK |-> << >>, SK |-> 0]

\* no fetch_service_data call and no command has been made; pages, failed,
\* queries and cursors are history: the Items of each response, whether a query
\* raised, the kwargs of each query and the LastEvaluatedKey of each response
IdleFetch == [at |-> "idle", items |-> << >>, start_key |-> NoKey, last_key |-> NoKey,
              pages |-> << >>, failed |-> FALSE, queries |-> << >>, cursors |-> << >>]
IdleCommand == [name |-> None, at |-> "idle", items |-> << >>, failure |-> None,
                exit |-> 0, err |-> None, skipped |-> None]

\* the cache file: absent, or holding text that float() parses to last_sync, or
\* text it raises ValueError on
NoCacheFile == [exists |-> FALSE, valid |-> FALSE, last_sync |-> 0]
CorruptCacheFile == [exists |-> TRUE, valid |-> FALSE, last_sync |-> 0]
\* cache_file.write_text(str(time.time()))
CacheFile(t) == [exists |-> TRUE, valid |-> TRUE, last_sync |-> t]

\* what arg holds for a thread that is not inside add(): no Observation
NoObservation == [id |-> 0]

Observation(id, shape, ts) ==
  [id |-> id, service_name |-> ServiceName, caller |-> shape.caller,
   method |-> Method, path_template |-> PathTemplate,
   request_fields |-> shape.request_fields,
   request_headers |-> shape.request_headers,
   query_params |-> shape.query_params,
   status_code |-> shape.status_code, timestamp |-> ts]

ShouldFlushOnIntervalOnly(obs, t, last) == t - last >= flush_interval

ShouldFlushStrict(obs, t, last) == Len(obs) > max_size \/ t - last > flush_interval

\* _should_flush
ShouldFlush(obs, t, last) == Len(obs) >= max_size \/ t - last >= flush_interval

DrainedKept(obs) == obs

\* _drain: "self._observations = []"
Drained(obs) == << >>

DrainBatchDropsLast(obs) == IF Len(obs) > 1 THEN SubSeq(obs, 1, Len(obs) - 1) ELSE obs

DrainBatchReversed(obs) == [i \in 1..Len(obs) |-> obs[Len(obs) + 1 - i]]

\* _drain: "batch = self._observations[:]"
DrainBatch(obs) == obs

DispatchesAlways(batch) == TRUE

\* _flush_async, _flush_sync: "if batch:"
Dispatches(batch) == batch # << >>

SafeFlushPropagates(raises) == IF raises THEN "propagated" ELSE "returned"

\* _safe_flush: "except Exception: logger.warning(...)"
SafeFlushResult(raises) == IF raises THEN "caught" ELSE "returned"

Run(sync, owner, batch) ==
  [sync |-> sync, owner |-> owner, batch |-> batch, st |-> "started", writes |-> << >>]

InAdd(t) == pc[t] \in {"add_wait", "add_unlock"}

\* time.monotonic() advances
Tick ==
  /\ now < MaxTime
  /\ now' = now + 1
  /\ UNCHANGED <<observations, lock, last_flush, pc, arg, runs, nAdds, nFlushes,
                 added, raised, clean, finalFlush, table, storeVars, callerVars>>

\* a request handler builds an Observation (one of shapes) and calls buffer.add(obs)
AddCall(t, shapes) ==
  /\ pc[t] = "idle"
  /\ nAdds < MaxAdds
  /\ \E shape \in shapes :
       arg' = [arg EXCEPT ![t] = Observation(nAdds + 1, shape, DateTime(now, 0))]
  /\ nAdds' = nAdds + 1
  /\ pc' = [pc EXCEPT ![t] = "add_wait"]
  /\ clean' = {}
  /\ finalFlush' = FALSE
  /\ UNCHANGED <<observations, lock, last_flush, now, runs, nFlushes, added, raised, table, storeVars, callerVars>>

\* add: "with self._lock:" is entered, the observation appended, and
\* "if self._should_flush(): self._flush_async()" run: _drain, then a daemon
\* thread is started on _safe_flush(batch). The lock is still held.
AddLocked(t) ==
  /\ pc[t] = "add_wait"
  /\ lock = None
  /\ lock' = t
  /\ LET appended == Append(observations, arg[t])
         batch == DrainBatch(appended)
     IN /\ added' = Append(added, arg[t])
        /\ IF ShouldFlush(appended, now, last_flush)
           THEN /\ observations' = Drained(appended)
                /\ last_flush' = now
                /\ runs' = IF Dispatches(batch)
                           THEN Append(runs, Run(FALSE, None, batch)) ELSE runs
           ELSE /\ observations' = appended
                /\ UNCHANGED <<last_flush, runs>>
  /\ pc' = [pc EXCEPT ![t] = "add_unlock"]
  /\ UNCHANGED <<now, arg, nAdds, nFlushes, raised, clean, finalFlush,
                 table, storeVars, callerVars>>

\* add: the with block ends, add returns
AddReturn(t) ==
  /\ pc[t] = "add_unlock"
  /\ lock' = None
  /\ pc' = [pc EXCEPT ![t] = "idle"]
  /\ arg' = [arg EXCEPT ![t] = NoObservation]
  /\ UNCHANGED <<observations, last_flush, now, runs, nAdds, nFlushes, added, raised, clean, finalFlush, table, storeVars, callerVars>>

\* a thread calls buffer.flush()
FlushCall(t) ==
  /\ pc[t] = "idle"
  /\ nFlushes < MaxFlushes
  /\ nFlushes' = nFlushes + 1
  /\ pc' = [pc EXCEPT ![t] = "flush_wait"]
  /\ clean' = IF \E u \in Threads : InAdd(u) THEN clean ELSE clean \cup {t}
  /\ UNCHANGED <<observations, lock, last_flush, now, arg, runs, nAdds, added, raised, finalFlush, table, storeVars, callerVars>>

AfterDrainDetached(batch) == "flush_unlock"

\* _flush_sync: "if batch: self._safe_flush(batch)": the caller of flush() is in
\* the flush function until it returns or raises; an empty batch is not flushed
AfterDrain(batch) == IF Dispatches(batch) THEN "flush_fn" ELSE "flush_unlock"

\* flush: "with self._lock:" is entered and _flush_sync runs "batch = self._drain()";
\* then "if batch: self._safe_flush(batch)" on the calling thread, inside the with block
FlushLocked(t) ==
  /\ pc[t] = "flush_wait"
  /\ lock = None
  /\ lock' = t
  /\ LET batch == DrainBatch(observations)
     IN /\ observations' = Drained(observations)
        /\ last_flush' = now
        /\ runs' = IF Dispatches(batch) THEN Append(runs, Run(TRUE, t, batch)) ELSE runs
        /\ pc' = [pc EXCEPT ![t] = AfterDrain(batch)]
  /\ UNCHANGED <<now, arg, nAdds, nFlushes, added, raised, clean,
                 finalFlush, table, storeVars, callerVars>>

\* flush: the with block ends, flush returns
FlushReturn(t) ==
  /\ pc[t] = "flush_unlock"
  /\ lock' = None
  /\ pc' = [pc EXCEPT ![t] = "idle"]
  /\ finalFlush' = (t \in clean)
  /\ clean' = clean \ {t}
  /\ UNCHANGED <<observations, last_flush, now, arg, runs, nAdds, nFlushes, added,
                 raised, table, storeVars, callerVars>>

\* ------------------------------------- _safe_flush, flush_fn, flush_observations
WritesOf(batch) ==
  LET aggregated == aggregate(batch)
  IN [i \in 1..Len(aggregated) |-> [agg |-> aggregated[i], st |-> "pending"]]

Settled(r) == \A i \in 1..Len(runs[r].writes) : runs[r].writes[i].st \in {"ok", "failed"}

\* what the end of _safe_flush means for the thread it ran on: a flush() caller
\* goes on to leave the with block; an exception that escaped leaves flush() raising
EndOfRun(r, result) ==
  IF ~runs[r].sync
  THEN UNCHANGED <<pc, lock, raised, clean>>
  ELSE IF result = "propagated"
  THEN /\ pc' = [pc EXCEPT ![runs[r].owner] = "idle"]
       /\ lock' = None
       /\ raised' = raised \cup {runs[r].owner}
       /\ clean' = clean \ {runs[r].owner}
  ELSE /\ pc' = [pc EXCEPT ![runs[r].owner] = "flush_unlock"]
       /\ UNCHANGED <<lock, raised, clean>>

\* _safe_flush calls self._flush_fn(batch); flush_fn gets the table and
\* flush_observations aggregates the batch and submits one write per record
FlushFnCall(r) ==
  /\ runs[r].st = "started"
  /\ runs' = [runs EXCEPT ![r].st = "writing", ![r].writes = WritesOf(runs[r].batch)]
  /\ UNCHANGED <<observations, lock, last_flush, now, pc, arg, nAdds, nFlushes, added,
                 raised, clean, finalFlush, table, storeVars, callerVars>>

FlushFnRaiseRequeues(r) ==
  /\ runs[r].st = "started"
  /\ runs' = [runs EXCEPT ![r].st = SafeFlushResult(TRUE)]
  /\ EndOfRun(r, SafeFlushResult(TRUE))
  /\ observations' = runs[r].batch \o observations
  /\ UNCHANGED <<last_flush, now, arg, nAdds, nFlushes, added,
                 finalFlush, table, storeVars, callerVars>>

\* _safe_flush calls self._flush_fn(batch) and it raises (get_table() fails)
FlushFnRaise(r) ==
  /\ runs[r].st = "started"
  /\ runs' = [runs EXCEPT ![r].st = SafeFlushResult(TRUE)]
  /\ EndOfRun(r, SafeFlushResult(TRUE))
  /\ UNCHANGED <<observations, last_flush, now, arg, nAdds, nFlushes, added,
                 finalFlush, table, storeVars, callerVars>>

\* a pool worker runs write_observation(table, agg, ttl_days)
WriteDone(r, i) ==
  /\ runs[r].st = "writing"
  /\ runs[r].writes[i].st = "pending"
  /\ LET agg == runs[r].writes[i].agg
     IN /\ table' = write_observation(table, agg, ttl_days)
        /\ runs' = [runs EXCEPT ![r].writes[i].st =
                      IF WriteRaises(agg, ttl_days) THEN "failed" ELSE "ok"]
  /\ UNCHANGED <<observations, lock, last_flush, now, pc, arg, nAdds, nFlushes, added,
                 raised, clean, finalFlush, storeVars, callerVars>>

\* table.update_item never returns: the worker stays in write_observation and
\* future.result() never returns, so neither does the flush function
WriteHang(r, i) ==
  /\ runs[r].st = "writing"
  /\ runs[r].writes[i].st = "pending"
  /\ runs' = [runs EXCEPT ![r].writes[i].st = "hung"]
  /\ UNCHANGED <<observations, lock, last_flush, now, pc, arg, nAdds, nFlushes, added,
                 raised, clean, finalFlush, table, storeVars, callerVars>>

FirstFailurePropagates(writes) == \E i \in 1..Len(writes) : writes[i].st = "failed"

\* flush_observations: "try: future.result() except Exception: logger.warning(...)":
\* no failed write makes flush_observations raise
FlushObservationsRaises(writes) == FALSE

\* every future.result() returned or raised (caught, logged): flush_fn returns
FlushFnReturn(r) ==
  /\ runs[r].st = "writing"
  /\ Settled(r)
  /\ runs' = [runs EXCEPT ![r].st = SafeFlushResult(FlushObservationsRaises(runs[r].writes))]
  /\ EndOfRun(r, SafeFlushResult(FlushObservationsRaises(runs[r].writes)))
  /\ UNCHANGED <<observations, last_flush, now, arg, nAdds, nFlushes, added, finalFlush, table, storeVars, callerVars>>

\* no adapter and no command is running
InitCallersIdle ==
  /\ adapter = None
  /\ request = [t \in Threads |-> IdleRequest]
  /\ stored = << >>
  /\ fetch = IdleFetch
  /\ cmd = IdleCommand
  /\ cache_file = NoCacheFile

InitStoreIdle ==
  /\ wpc = [w \in Writers |-> "idle"]
  /\ wagg = [w \in Writers |-> None]
  /\ wnext = [w \in Writers |-> 0]
  /\ nWrites = 0
  /\ written = << >>

InitBuffer ==
  /\ observations = << >>
  /\ lock = None
  /\ last_flush = 0
  /\ now = 0
  /\ pc = [t \in Threads |-> "idle"]
  /\ arg = [t \in Threads |-> NoObservation]
  /\ runs = << >>
  /\ nAdds = 0
  /\ nFlushes = 0
  /\ added = << >>
  /\ raised = {}
  /\ clean = {}
  /\ finalFlush = FALSE

Init == InitBuffer /\ table = NoItem /\ InitStoreIdle /\ InitCallersIdle

\* the pipeline is first used some time after the buffer was constructed
InitPipeline ==
  /\ observations = << >>
  /\ lock = None
  /\ last_flush = 0
  /\ now \in 0..MaxTime
  /\ pc = [t \in Threads |-> "idle"]
  /\ arg = [t \in Threads |-> NoObservation]
  /\ runs = << >>
  /\ nAdds = 0
  /\ nFlushes = 0
  /\ added = << >>
  /\ raised = {}
  /\ clean = {}
  /\ finalFlush = FALSE
  /\ table = NoItem
  /\ InitStoreIdle
  /\ InitCallersIdle

\* the shapes the producers of Spec send: the buffer never looks inside
BufferShapes == {s \in ObsShapes : s.caller = <<"b">>}

Next ==
  \/ Tick
  \/ \E t \in Threads : AddCall(t, BufferShapes)
  \/ \E t \in Threads : AddLocked(t)
  \/ \E t \in Threads : AddReturn(t)
  \/ \E t \in Threads : FlushCall(t)
  \/ \E t \in Threads : FlushLocked(t)
  \/ \E t \in Threads : FlushReturn(t)
  \/ \E r \in 1..Len(runs) : FlushFnCall(r)
  \/ \E r \in 1..Len(runs) : FlushFnRaise(r)
  \/ \E r \in 1..Len(runs) : \E i \in 1..Len(runs[r].writes) : WriteHang(r, i)
  \/ \E r \in 1..Len(runs) : \E i \in 1..Len(runs[r].writes) : WriteDone(r, i)
  \/ \E r \in 1..Len(runs) : FlushFnReturn(r)

Spec == Init /\ [][Next]_vars

\* Spec with the scheduling of the code: time passes, a thread inside add() or
\* flush() goes on, a started flush thread runs, a store call that is going to
\* return does. Nothing makes a producer call add() or flush() again.
LatencySpec ==
  /\ Init
  /\ [][Next]_vars
  /\ WF_vars(Tick)
  /\ WF_vars(\E t \in Threads : AddLocked(t))
  /\ WF_vars(\E t \in Threads : AddReturn(t))
  /\ WF_vars(\E t \in Threads : FlushLocked(t))
  /\ WF_vars(\E t \in Threads : FlushReturn(t))
  /\ WF_vars(\E r \in 1..Len(runs) : FlushFnCall(r) \/ FlushFnRaise(r))
  /\ WF_vars(\E r \in 1..Len(runs) : \E i \in 1..Len(runs[r].writes) : WriteDone(r, i))
  /\ WF_vars(\E r \in 1..Len(runs) : FlushFnReturn(r))

\* the pipeline with a store whose calls all succeed
NextPipeline ==
  \/ \E t \in Threads : AddCall(t, ObsShapes)
  \/ \E t \in Threads : AddLocked(t)
  \/ \E t \in Threads : AddReturn(t)
  \/ \E t \in Threads : FlushCall(t)
  \/ \E t \in Threads : FlushLocked(t)
  \/ \E t \in Threads : FlushReturn(t)
  \/ \E r \in 1..Len(runs) : FlushFnCall(r)
  \/ \E r \in 1..Len(runs) : \E i \in 1..Len(runs[r].writes) : WriteDone(r, i)
  \/ \E r \in 1..Len(runs) : FlushFnReturn(r)

PipelineSpec == InitPipeline /\ [][NextPipeline]_vars

\* ------------------------------------------- callers of write_observation
\* the name sets of the AggregatedObservations written in StoreSpec
NameShapes ==
  { [request_fields |-> {}, request_headers |-> {}, query_params |-> {},
     response_codes |-> {StrOfStatus(200)}],
    [request_fields |-> {"f1"}, request_headers |-> {"h1"}, query_params |-> {},
     response_codes |-> {StrOfStatus(200)}],
    [request_fields |-> {"f2"}, request_headers |-> {}, query_params |-> {"q1"},
     response_codes |-> {}] }

\* their (first_seen, last_seen)
SeenPairs ==
  { <<DateTime(0, 0), DateTime(0, 0)>>,
    <<DateTime(0, 0), DateTime(1, 500000)>>,
    <<DateTime(1, 0), DateTime(2, 0)>> }

AggregatedObservation(caller, shape, count, seen) ==
  [service_name |-> ServiceName, caller |-> caller,
   method |-> Method, path_template |-> PathTemplate,
   request_fields |-> shape.request_fields,
   request_headers |-> shape.request_headers,
   query_params |-> shape.query_params,
   response_codes |-> shape.response_codes,
   call_count |-> count, first_seen |-> seen[1], last_seen |-> seen[2]]

\* every shape for caller "a", one record for caller "b"
AggInputs ==
  { AggregatedObservation(<<"a">>, sh, c, p) :
      sh \in NameShapes, c \in 1..MaxCount, p \in SeenPairs }
  \cup { AggregatedObservation(<<"b">>, sh, 1, <<DateTime(0, 0), DateTime(0, 0)>>) :
      sh \in {x \in NameShapes : x.request_fields = {"f1"}} }

\* a thread calls write_observation(table, agg, ttl_days)
WriteCall(w) ==
  /\ wpc[w] \in {"idle", "returned", "rejected"}
  /\ nWrites < MaxWrites
  /\ nWrites' = nWrites + 1
  /\ \E agg \in AggInputs : wagg' = [wagg EXCEPT ![w] = agg]
  /\ wnext' = [wnext EXCEPT ![w] = 1]
  /\ wpc' = [wpc EXCEPT ![w] = "calling"]
  /\ UNCHANGED <<bufVars, callerVars, table, written>>

\* write_observation: table.update_item(...) with the next request; the store
\* applies it atomically, or rejects it and write_observation raises
WriteUpdateItem(w) ==
  /\ wpc[w] = "calling"
  /\ LET reqs == UpdateRequests(wagg[w], ttl_days)
         req == reqs[wnext[w]]
     IN IF Rejects(req)
        THEN /\ wpc' = [wpc EXCEPT ![w] = "rejected"]
             /\ wagg' = [wagg EXCEPT ![w] = None]
             /\ UNCHANGED <<table, wnext, written>>
        ELSE /\ table' = UpdateItem(table, req)
             /\ wnext' = [wnext EXCEPT ![w] = @ + 1]
             /\ wpc' = [wpc EXCEPT ![w] = IF wnext[w] = Len(reqs) THEN "returned" ELSE "calling"]
             /\ wagg' = [wagg EXCEPT ![w] = IF wnext[w] = Len(reqs) THEN None ELSE @]
             /\ written' = IF wnext[w] = 1 THEN Append(written, wagg[w]) ELSE written
  /\ UNCHANGED <<bufVars, callerVars, nWrites>>

\* table.update_item raises (store unreachable, throttled): nothing is written,
\* write_observation raises
WriteStoreError(w) ==
  /\ wpc[w] = "calling"
  /\ wpc' = [wpc EXCEPT ![w] = "idle"]
  /\ wagg' = [wagg EXCEPT ![w] = None]
  /\ wnext' = [wnext EXCEPT ![w] = 0]
  /\ UNCHANGED <<bufVars, callerVars, table, nWrites, written>>

NextStore ==
  \/ \E w \in Writers : WriteCall(w)
  \/ \E w \in Writers : WriteUpdateItem(w)
  \/ \E w \in Writers : WriteStoreError(w)

\* records an earlier process may have left in the table
SeedAggs ==
  { AggregatedObservation(<<"a">>, sh, 1, <<DateTime(0, 0), DateTime(1, 500000)>>) :
      sh \in {x \in NameShapes : x.request_fields = {"f1"}} }

\* the table is empty, or holds what one earlier write_observation left
InitStore ==
  /\ InitBuffer
  /\ wpc = [w \in Writers |-> "idle"]
  /\ wagg = [w \in Writers |-> None]
  /\ wnext = [w \in Writers |-> 0]
  /\ nWrites = 0
  /\ \/ table = NoItem /\ written = << >>
     \/ \E seed \in SeedAggs :
          /\ table = write_observation(NoItem, seed, ttl_days)
          /\ written = << seed >>
  /\ InitCallersIdle

StoreSpec == InitStore /\ [][NextStore]_vars

\* ------------------------------------------------- keys with the delimiter
\* str values of at most n characters over chars
StringsOver(chars, n) == UNION {[1..m -> chars] : m \in 0..n}

\* the characters of the key parts: a letter and the delimiter of the sort key
KeyChars == {"a", "#"}
Delimiter == "#"

\* records of every (service_name, caller, method, path_template) in which the
\* method and the path template hold no delimiter; the caller may
KeyInputs ==
  { [AggregatedObservation(caller, sh, 1, <<DateTime(0, 0), DateTime(0, 0)>>)
       EXCEPT !.service_name = service_name, !.method = method,
              !.path_template = path_template] :
      service_name \in {<<"a">>, <<"a", Delimiter>>},
      caller \in StringsOver(KeyChars, MaxChars),
      method \in StringsOver(KeyChars \ {Delimiter}, MaxChars),
      path_template \in StringsOver(KeyChars \ {Delimiter}, MaxChars),
      sh \in {x \in NameShapes : x.request_fields = {"f1"}} }

\* index of the first sep in str from i on, 0 when there is none
RECURSIVE Find(_, _, _)
Find(str, sep, i) ==
  IF i > Len(str) THEN 0
  ELSE IF str[i] = sep THEN i
  ELSE Find(str, sep, i + 1)

\* str.split(sep, maxsplit): cut at the leftmost maxsplit separators
RECURSIVE split(_, _, _)
split(str, sep, maxsplit) ==
  LET i == Find(str, sep, 1)
  IN IF maxsplit = 0 \/ i = 0 THEN << str >>
     ELSE << SubSeq(str, 1, i - 1) >>
          \o split(SubSeq(str, i + 1, Len(str)), sep, maxsplit - 1)

\* transform_items: parts = item["SK"].split("#", 3); an item whose SK has not
\* four parts is skipped; _, caller, method, path = parts
ParsedKey(sk) ==
  LET parts == split(sk, Delimiter, 3)
  IN IF Len(parts) # 4 THEN [skipped |-> TRUE]
     ELSE [skipped |-> FALSE, caller |-> parts[2], method |-> parts[3],
           path |-> parts[4]]

\* two threads are each about to call write_observation on an empty table
InitKey ==
  /\ InitBuffer
  /\ wpc = [w \in Writers |-> "calling"]
  /\ wagg \in [Writers -> KeyInputs]
  /\ wnext = [w \in Writers |-> 1]
  /\ nWrites = Cardinality(Writers)
  /\ table = NoItem
  /\ written = << >>
  /\ InitCallersIdle

NextKey == \E w \in Writers : WriteUpdateItem(w)

KeySpec == InitKey /\ [][NextKey]_vars

\* ---------------------------------------- flush_observations' thread pool
MaxWorkersUncapped(n) == n

\* ThreadPoolExecutor(max_workers=min(len(aggregated), 10))
MaxWorkers(n) == IF n < PoolCap THEN n ELSE PoolCap

\* the write_observation calls of run r a pool worker is executing
InFlight(r) ==
  {i \in 1..Len(runs[r].writes) : runs[r].writes[i].st \in {"running", "hung"}}

MayStartSerial(r, i) ==
  \A j \in 1..(i - 1) : runs[r].writes[j].st \in {"ok", "failed"}

\* the executor hands work items to its workers in submission order, to at most
\* max_workers workers at a time
MayStart(r, i) ==
  /\ \A j \in 1..(i - 1) : runs[r].writes[j].st # "pending"
  /\ Cardinality(InFlight(r)) < MaxWorkers(Len(runs[r].writes))

\* a pool worker takes the next work item and calls write_observation
WriteStart(r, i) ==
  /\ runs[r].st = "writing"
  /\ runs[r].writes[i].st = "pending"
  /\ MayStart(r, i)
  /\ runs' = [runs EXCEPT ![r].writes[i].st = "running"]
  /\ UNCHANGED <<observations, lock, last_flush, now, pc, arg, nAdds, nFlushes, added,
                 raised, clean, finalFlush, table, storeVars, callerVars>>

\* the worker's write_observation returns: its update_item was applied
WriteReturn(r, i) ==
  /\ runs[r].st = "writing"
  /\ runs[r].writes[i].st = "running"
  /\ LET agg == runs[r].writes[i].agg
     IN /\ table' = write_observation(table, agg, ttl_days)
        /\ runs' = [runs EXCEPT ![r].writes[i].st =
                      IF WriteRaises(agg, ttl_days) THEN "failed" ELSE "ok"]
  /\ UNCHANGED <<observations, lock, last_flush, now, pc, arg, nAdds, nFlushes, added,
                 raised, clean, finalFlush, storeVars, callerVars>>

\* the worker's write_observation raises (update_item fails): nothing is written,
\* the exception is kept in the future
WriteRaise(r, i) ==
  /\ runs[r].st = "writing"
  /\ runs[r].writes[i].st = "running"
  /\ runs' = [runs EXCEPT ![r].writes[i].st = "failed"]
  /\ UNCHANGED <<observations, lock, last_flush, now, pc, arg, nAdds, nFlushes, added,
                 raised, clean, finalFlush, table, storeVars, callerVars>>

HungWrites(r) == {i \in 1..Len(runs[r].writes) : runs[r].writes[i].st = "hung"}

\* the worker's update_item never returns: the worker stays in write_observation
WriteNeverReturns(r, i) ==
  /\ runs[r].st = "writing"
  /\ runs[r].writes[i].st = "running"
  /\ Cardinality(HungWrites(r)) < MaxHangs
  /\ runs' = [runs EXCEPT ![r].writes[i].st = "hung"]
  /\ UNCHANGED <<observations, lock, last_flush, now, pc, arg, nAdds, nFlushes, added,
                 raised, clean, finalFlush, table, storeVars, callerVars>>

\* a batch of n + 1 observations of n callers, the first caller seen twice
BatchOf(n) ==
  [i \in 1..(IF n = 0 THEN 0 ELSE n + 1) |->
     Observation(i, [caller |-> <<"c", ((i - 1) % n) + 1>>,
                     request_fields |-> {"f1"}, request_headers |-> {},
                     query_params |-> {}, status_code |-> 200],
                 DateTime(i, 0))]

\* one flush function call, one of calls, is under way on an empty table
InitFlush(calls) ==
  /\ observations = << >>
  /\ lock = None
  /\ last_flush = 0
  /\ now = 0
  /\ pc = [t \in Threads |-> "idle"]
  /\ arg = [t \in Threads |-> NoObservation]
  /\ \E run \in calls : runs = << run >>
  /\ nAdds = 0
  /\ nFlushes = 0
  /\ added = << >>
  /\ raised = {}
  /\ clean = {}
  /\ finalFlush = FALSE
  /\ table = NoItem
  /\ InitStoreIdle
  /\ InitCallersIdle

\* flush_observations against a store whose calls return or raise
NextFlush ==
  \/ \E r \in 1..Len(runs) : FlushFnCall(r)
  \/ \E r \in 1..Len(runs) : \E i \in 1..Len(runs[r].writes) : WriteStart(r, i)
  \/ \E r \in 1..Len(runs) : \E i \in 1..Len(runs[r].writes) : WriteReturn(r, i)
  \/ \E r \in 1..Len(runs) : \E i \in 1..Len(runs[r].writes) : WriteRaise(r, i)
  \/ \E r \in 1..Len(runs) : FlushFnReturn(r)

\* the flush function is about to be called with a batch of 0..MaxRecords records
FlushSpec ==
  InitFlush({Run(FALSE, None, BatchOf(n)) : n \in 0..MaxRecords}) /\ [][NextFlush]_vars

\* flush_observations has aggregated batch and submitted one write per record
Submitted(batch) ==
  [Run(FALSE, None, batch) EXCEPT !.st = "writing", !.writes = WritesOf(batch)]

\* flush_observations on a batch of more records than the pool has workers,
\* against a store whose calls return or never return
NextPool ==
  \/ \E r \in 1..Len(runs) : \E i \in 1..Len(runs[r].writes) : WriteStart(r, i)
  \/ \E r \in 1..Len(runs) : \E i \in 1..Len(runs[r].writes) : WriteReturn(r, i)
  \/ \E r \in 1..Len(runs) : \E i \in 1..Len(runs[r].writes) : WriteNeverReturns(r, i)
  \/ \E r \in 1..Len(runs) : FlushFnReturn(r)

\* threads that are started run; a store call that is going to return does
PoolSpec ==
  /\ InitFlush({Submitted(BatchOf(2)), Submitted(BatchOf(PoolCap + 1))})
  /\ [][NextPool]_vars
  /\ WF_vars(\E r \in 1..Len(runs) : \E i \in 1..Len(runs[r].writes) : WriteStart(r, i))
  /\ WF_vars(\E r \in 1..Len(runs) : \E i \in 1..Len(runs[r].writes) : WriteReturn(r, i))
  /\ WF_vars(\E r \in 1..Len(runs) : FlushFnReturn(r))

\* the pipeline, and one direct call of the flush function with an empty list
EmptyBatchSpec == InitFlush({Run(FALSE, None, << >>)}) /\ [][NextPipeline]_vars

\* ------------------------------------------------------- inputs of aggregate
\* what an Observation holds besides its identity and timestamp: two shapes and
\* two status codes for one endpoint and caller, another caller, another method
AggKinds ==
  { [service_name |-> ServiceName, caller |-> <<"a">>, method |-> <<"GET">>,
     path_template |-> <<"/x">>, request_fields |-> {"f1"}, request_headers |-> {},
     query_params |-> {}, status_code |-> 200],
    [service_name |-> ServiceName, caller |-> <<"a">>, method |-> <<"GET">>,
     path_template |-> <<"/x">>, request_fields |-> {"f2"}, request_headers |-> {"h1"},
     query_params |-> {"q1"}, status_code |-> 200],
    [service_name |-> ServiceName, caller |-> <<"a">>, method |-> <<"GET">>,
     path_template |-> <<"/x">>, request_fields |-> {"f1"}, request_headers |-> {},
     query_params |-> {}, status_code |-> 500],
    [service_name |-> ServiceName, caller |-> <<"b">>, method |-> <<"GET">>,
     path_template |-> <<"/x">>, request_fields |-> {"f1"}, request_headers |-> {},
     query_params |-> {}, status_code |-> 200],
    [service_name |-> ServiceName, caller |-> <<"a">>, method |-> <<"POST">>,
     path_template |-> <<"/x">>, request_fields |-> {"f1"}, request_headers |-> {},
     query_params |-> {}, status_code |-> 200] }

AggTimes == {DateTime(0, 0), DateTime(0, 500000), DateTime(1, 0)}

\* the list of n observations of the given kinds and timestamps
AggBatch(n, kinds, times) ==
  [i \in 1..n |-> kinds[i] @@ [id |-> i, timestamp |-> times[i]]]

\* the flush function is about to be called with a list of at most MaxLen
\* observations over AggKinds and AggTimes
InitAgg ==
  \E n \in 0..MaxLen :
    \E kinds \in [1..n -> AggKinds], times \in [1..n -> AggTimes] :
      InitFlush({Run(FALSE, None, AggBatch(n, kinds, times))})

\* aggregate(observations) is applied to the list
NextAgg == \E r \in 1..Len(runs) : FlushFnCall(r)

AggSpec == InitAgg /\ [][NextAgg]_vars

\* ------------------------------------------------------------ the adapters
\* the ASGI and WSGI middlewares, the Lambda wrapper and the span processor
Adapters == {"asgi", "wsgi", "lambda", "otel"}

\* what the host application or handler hands back
Response == "response"

\* what can raise while an observation is recorded
RecordFailures == {"extract", "build", "add"}

\* a request that is over: handed back, or ended by an exception
Over(t) == request[t].at \in {"idle", "returned", "raised"}

\* where an adapter begins: the WSGI middleware reads the request body before it
\* calls the application; on_end is called with a span that has ended; the
\* others call the application or handler first
EntryPoint(a) == IF a = "wsgi" THEN "capture" ELSE IF a = "otel" THEN "record" ELSE "app"

\* the server calls the middleware, the Lambda runtime the wrapper (one
\* invocation at a time), the tracer on_end
AdapterCall(t) ==
  /\ Over(t)
  /\ pc[t] = "idle"
  /\ adapter = "lambda" => \A u \in Threads : Over(u)
  /\ request' = [request EXCEPT ![t] = [IdleRequest EXCEPT !.at = EntryPoint(adapter)]]
  /\ UNCHANGED <<bufVars, table, storeVars, adapter, cliVars>>

\* wsgi: "int(environ.get("CONTENT_LENGTH") or 0)" and "wsgi.input.read" return
WsgiReadBody(t) ==
  /\ request[t].at = "capture"
  /\ request' = [request EXCEPT ![t].at = "app"]
  /\ UNCHANGED <<bufVars, table, storeVars, adapter, cliVars>>

\* wsgi: one of them raises; they are outside the try, before the application
WsgiReadBodyRaises(t) ==
  /\ request[t].at = "capture"
  /\ request' = [request EXCEPT ![t].at = "raised", ![t].failure = "capture"]
  /\ UNCHANGED <<bufVars, table, storeVars, adapter, cliVars>>

\* the application or handler returns its response or result
HostReturns(t) ==
  /\ request[t].at = "app"
  /\ request' = [request EXCEPT ![t].at = "record", ![t].host = Response]
  /\ UNCHANGED <<bufVars, table, storeVars, adapter, cliVars>>

\* the application or handler raises: the call is outside the try
HostRaises(t) ==
  /\ request[t].at = "app"
  /\ request' = [request EXCEPT ![t].at = "raised", ![t].failure = "host"]
  /\ UNCHANGED <<bufVars, table, storeVars, adapter, cliVars>>

AfterRecordingFailurePropagates == "raised"

\* "try: self._record(...) except Exception: logger.warning(...)" and its like in
\* the wrapper and in on_end: the adapter goes on after the try
AfterRecordingFailure == "after"

\* extracting the request shape, building the Observation, or buffer.add raises
RecordFails(t, kind) ==
  /\ request[t].at = "record"
  /\ request' = [request EXCEPT ![t].at = AfterRecordingFailure, ![t].failure = kind]
  /\ UNCHANGED <<bufVars, table, storeVars, adapter, cliVars>>

\* the wrapper finds no HTTP trigger, on_end a span that is not a server HTTP span
RecordSkips(t) ==
  /\ request[t].at = "record"
  /\ adapter \in {"lambda", "otel"}
  /\ request' = [request EXCEPT ![t].at = "after"]
  /\ UNCHANGED <<bufVars, table, storeVars, adapter, cliVars>>

\* the adapter builds the Observation and calls self._buffer.add(obs)
RecordAdd(t) ==
  /\ request[t].at = "record"
  /\ nAdds < MaxAdds
  /\ \E shape \in BufferShapes :
       arg' = [arg EXCEPT ![t] = Observation(nAdds + 1, shape, DateTime(now, 0))]
  /\ nAdds' = nAdds + 1
  /\ pc' = [pc EXCEPT ![t] = "add_wait"]
  /\ clean' = {}
  /\ finalFlush' = FALSE
  /\ request' = [request EXCEPT ![t].at = "adding"]
  /\ UNCHANGED <<observations, lock, last_flush, now, runs, nFlushes, added, raised,
                 table, storeVars, adapter, cliVars>>

\* the try block is over: add() returned, or there was nothing to add, or the
\* exception was logged
RecordingOver(t) ==
  \/ request[t].at = "after"
  \/ request[t].at = "adding" /\ pc[t] = "idle"

\* the wrapper: "finally: buffer.flush()"
LambdaFlushCall(t) ==
  /\ adapter = "lambda"
  /\ RecordingOver(t)
  /\ nFlushes < MaxFlushes
  /\ nFlushes' = nFlushes + 1
  /\ pc' = [pc EXCEPT ![t] = "flush_wait"]
  /\ clean' = IF \E u \in Threads : InAdd(u) THEN clean ELSE clean \cup {t}
  /\ request' = [request EXCEPT ![t].at = "flushing"]
  /\ UNCHANGED <<observations, lock, last_flush, now, arg, runs, nAdds, added, raised,
                 finalFlush, table, storeVars, adapter, cliVars>>

\* "return response", "return result", the end of on_end
AdapterReturn(t) ==
  /\ IF adapter = "lambda"
     THEN request[t].at = "flushing" /\ pc[t] = "idle"
     ELSE RecordingOver(t)
  /\ request' = [request EXCEPT ![t].at = "returned", ![t].handed = request[t].host]
  /\ UNCHANGED <<bufVars, table, storeVars, adapter, cliVars>>

InitAdapter ==
  /\ InitBuffer
  /\ table = NoItem
  /\ InitStoreIdle
  /\ adapter \in Adapters
  /\ request = [t \in Threads |-> IdleRequest]
  /\ stored = << >>
  /\ fetch = IdleFetch
  /\ cmd = IdleCommand
  /\ cache_file = NoCacheFile

\* requests served through one adapter and its buffer, whose flush function may raise
NextAdapter ==
  \/ Tick
  \/ \E t \in Threads : AdapterCall(t)
  \/ \E t \in Threads : WsgiReadBody(t)
  \/ \E t \in Threads : WsgiReadBodyRaises(t)
  \/ \E t \in Threads : HostReturns(t)
  \/ \E t \in Threads : HostRaises(t)
  \/ \E t \in Threads : \E kind \in RecordFailures : RecordFails(t, kind)
  \/ \E t \in Threads : RecordSkips(t)
  \/ \E t \in Threads : RecordAdd(t)
  \/ \E t \in Threads : AddLocked(t)
  \/ \E t \in Threads : AddReturn(t)
  \/ \E t \in Threads : LambdaFlushCall(t)
  \/ \E t \in Threads : FlushLocked(t)
  \/ \E t \in Threads : FlushReturn(t)
  \/ \E r \in 1..Len(runs) : FlushFnCall(r)
  \/ \E r \in 1..Len(runs) : FlushFnRaise(r)
  \/ \E r \in 1..Len(runs) : \E i \in 1..Len(runs[r].writes) : WriteDone(r, i)
  \/ \E r \in 1..Len(runs) : FlushFnReturn(r)
  \/ \E t \in Threads : AdapterReturn(t)

AdapterSpec == InitAdapter /\ [][NextAdapter]_vars

\* ------------------------------------------------------ fetch_service_data
\* the services with records in the table; "SERVICE#other" sorts before "SERVICE#svc"
OtherService == <<"other">>

\* f"SERVICE#{service_name}"
PartitionKey(service_name) == <<"SERVICE", "#">> \o service_name

\* a stored record; its sort key is named by its rank in the partition's order
StoredItem(service_name, k) == [PK |-> PartitionKey(service_name), SK |-> k]

\* a table with n records of the service and m of the other, in key order
TableOf(n, m) ==
  [i \in 1..m |-> StoredItem(OtherService, i)] \o [i \in 1..n |-> StoredItem(ServiceName, i)]

\* KeyConditionExpression = Key("PK").eq(pk)
Matching(tbl, pk) == SelectSeq(tbl, LAMBDA item : item.PK = pk)

KeyOfItem(item) == [PK |-> item.PK, SK |-> item.SK]

\* table.query(**kwargs): the store reads the matching items after
\* ExclusiveStartKey in key order and stops after n of them, or at the end of the
\* partition. It returns LastEvaluatedKey, the key of the last item read, when
\* items are left, and may (more) when it stopped on the last item.
QueryResponse(tbl, pk, start_key, n, more) ==
  LET rest == SelectSeq(Matching(tbl, pk),
                        LAMBDA item : start_key = NoKey \/ item.SK > start_key.SK)
      page == SubSeq(rest, 1, IF n < Len(rest) THEN n ELSE Len(rest))
  IN [Items |-> page,
      LastEvaluatedKey |->
        IF page # << >> /\ (Len(page) < Len(rest) \/ more)
        THEN KeyOfItem(page[Len(page)]) ELSE NoKey]

ContinuesNever(last_key) == FALSE

\* "if not last_key: break"
Continues(last_key) == last_key # NoKey

OnQueryFailureReturnsItems == "returned"

\* table.query raises inside the loop, which has no try: fetch_service_data raises
OnQueryFailure == "raised"

\* kwargs: KeyConditionExpression and, after the first page, ExclusiveStartKey
Kwargs(pk, start_key) == [KeyConditionExpression |-> pk, ExclusiveStartKey |-> start_key]

WithStartKeyKept(start_key, last_key) == start_key

\* kwargs["ExclusiveStartKey"] = last_key
WithStartKey(start_key, last_key) == last_key

\* fetch_service_data is called: items = [], kwargs has no ExclusiveStartKey
StartFetch == [IdleFetch EXCEPT !.at = "querying"]

\* one round of the loop: query, items.extend(response["Items"]), then break and
\* "return items", or kwargs["ExclusiveStartKey"] = last_key
FetchQuery(n, more) ==
  /\ fetch.at = "querying"
  /\ LET response == QueryResponse(stored, PartitionKey(ServiceName), fetch.start_key, n, more)
         last_key == response.LastEvaluatedKey
     IN fetch' = [fetch EXCEPT !.items = @ \o response.Items,
                               !.pages = Append(@, response.Items),
                               !.last_key = last_key,
                               !.queries = Append(@, Kwargs(PartitionKey(ServiceName),
                                                            fetch.start_key)),
                               !.cursors = Append(@, last_key),
                               !.start_key = IF Continues(last_key)
                                             THEN WithStartKey(@, last_key) ELSE @,
                               !.at = IF Continues(last_key) THEN "querying" ELSE "returned"]
  /\ UNCHANGED <<bufVars, table, storeVars, adapter, request, stored, cmd, cache_file>>

\* table.query raises (store unreachable, throttled)
FetchQueryRaises ==
  /\ fetch.at = "querying"
  /\ fetch' = [fetch EXCEPT !.failed = TRUE, !.at = OnQueryFailure,
                            !.queries = Append(@, Kwargs(PartitionKey(ServiceName),
                                                         fetch.start_key))]
  /\ UNCHANGED <<bufVars, table, storeVars, adapter, request, stored, cmd, cache_file>>

\* ------------------------------------------------------------ cli/commands.py
Command(name) == [IdleCommand EXCEPT !.name = name, !.at = "fetching"]

ExitOnFailureAlwaysFatal(name) == 1

\* hook: "except Exception as e: click.echo(...non-fatal...)", then it returns;
\* sync has no try: the exception ends the command with status 1
ExitOnFailure(name) == IF name = "hook" THEN 0 ELSE 1

ErrOnFailure(name) == IF name = "hook" THEN "non-fatal" ELSE "traceback"

\* sync: fetch_service_data(...) is called
SyncCall ==
  /\ cmd.at \in {"idle", "exited"}
  /\ cmd' = Command("sync")
  /\ fetch' = StartFetch
  /\ UNCHANGED <<bufVars, table, storeVars, adapter, request, stored, cache_file>>

FreshNever(file, t) == FALSE

\* "if cache_file.exists():" float(read_text()) parses and
\* age_minutes = (time.time() - last_sync) / 60 is below cache_minutes; the
\* clock counts minutes
Fresh(file, t) == file.exists /\ file.valid /\ t - file.last_sync < cache_minutes

\* hook: returns at once when no service is configured or the cache file is
\* fresh; otherwise enters the try block and calls fetch_service_data(...)
HookCall(configured) ==
  /\ cmd.at \in {"idle", "exited"}
  /\ IF ~configured \/ Fresh(cache_file, now)
     THEN /\ cmd' = [IdleCommand EXCEPT !.name = "hook", !.at = "exited",
                       !.skipped = IF ~configured THEN "unconfigured" ELSE "fresh"]
          /\ fetch' = IdleFetch
     ELSE /\ cmd' = Command("hook")
          /\ fetch' = StartFetch
  /\ UNCHANGED <<bufVars, table, storeVars, adapter, request, stored, cache_file>>

\* fetch_service_data returned items. sync: "if not items: ... return"; hook
\* goes on to write the cache file whether or not there are items
FetchReturned ==
  /\ cmd.at = "fetching"
  /\ fetch.at = "returned"
  /\ cmd' = [cmd EXCEPT !.items = fetch.items,
                        !.at = IF cmd.name = "sync" /\ fetch.items = << >>
                               THEN "exited" ELSE "writing"]
  /\ UNCHANGED <<bufVars, table, storeVars, adapter, request, stored, fetch, cache_file>>

\* fetch_service_data raised
FetchRaised ==
  /\ cmd.at = "fetching"
  /\ fetch.at = "raised"
  /\ cmd' = [cmd EXCEPT !.at = "exited", !.failure = "fetch",
                        !.exit = ExitOnFailure(cmd.name), !.err = ErrOnFailure(cmd.name)]
  /\ UNCHANGED <<bufVars, table, storeVars, adapter, request, stored, fetch, cache_file>>

\* transform_items, generate_section, update_claude_md succeed, and hook writes
\* the time to its cache file
WriteOutput ==
  /\ cmd.at = "writing"
  /\ cmd' = [cmd EXCEPT !.at = "exited"]
  /\ cache_file' = IF cmd.name = "hook" THEN CacheFile(now) ELSE cache_file
  /\ UNCHANGED <<bufVars, table, storeVars, adapter, request, stored, fetch>>

\* one of them raises; when it is hook's write_text, after it opened the file,
\* the file is left (torn) without the text of a time
WriteOutputRaises(torn) ==
  /\ cmd.at = "writing"
  /\ cmd' = [cmd EXCEPT !.at = "exited", !.failure = "write",
                        !.exit = ExitOnFailure(cmd.name), !.err = ErrOnFailure(cmd.name)]
  /\ cache_file' = IF cmd.name = "hook" /\ torn THEN CorruptCacheFile ELSE cache_file
  /\ UNCHANGED <<bufVars, table, storeVars, adapter, request, stored, fetch>>

\* time.time() advances, between commands and while one runs
TimePasses == Tick

InitCli ==
  /\ InitBuffer
  /\ table = NoItem
  /\ InitStoreIdle
  /\ adapter = None
  /\ request = [t \in Threads |-> IdleRequest]
  /\ \E n \in 0..MaxItems, m \in 0..MaxItems : stored = TableOf(n, m)
  /\ fetch = IdleFetch
  /\ cmd = IdleCommand
  /\ cache_file \in {NoCacheFile, CorruptCacheFile}

\* the sync and hook commands reading a table through a store that pages at any
\* boundary and whose queries may raise
NextCli ==
  \/ SyncCall
  \/ \E configured \in BOOLEAN : HookCall(configured)
  \/ \E n \in 1..MaxItems, more \in BOOLEAN : FetchQuery(n, more)
  \/ FetchQueryRaises
  \/ FetchReturned
  \/ FetchRaised
  \/ WriteOutput
  \/ \E torn \in BOOLEAN : WriteOutputRaises(torn)
  \/ TimePasses

CliSpec == InitCli /\ [][NextCli]_vars

\* ------------------------------------------------------------- properties
\* the positions at which the observation with identity id sits
InBuffer(id) == {i \in 1..Len(observations) : observations[i].id = id}

InBatches(id, rs) ==
  UNION { { <<r, i>> : i \in {j \in 1..Len(runs[r].batch) : runs[r].batch[j].id = id} }
          : r \in rs }

\* the drained batches, and those _flush_fn has been called with
Drains == 1..Len(runs)
Handed == {r \in Drains : runs[r].st # "started"}

AddedIds == {added[i].id : i \in 1..Len(added)}

AddedWithKey(k) == {i \in 1..Len(added) : KeyOf(added[i]) = k}
AddedKeys == {KeyOf(added[i]) : i \in 1..Len(added)}
KeyAsAgg(k) == [service_name |-> k[1], caller |-> k[2], method |-> k[3], path_template |-> k[4]]
SetAttr(item, a) == IF a \in DOMAIN item THEN item[a] ELSE {}
NumAttr(item, a) == IF a \in DOMAIN item THEN item[a] ELSE 0

\* C2 (end to end, store calls all succeed): once a flush() that began after every
\* add() returned has returned and every flush function call has returned, the item
\* of each key has call_count = the number of observations added with that key and
\* name sets = the unions of their names; no other item exists.
EndToEndCounts ==
  (finalFlush /\ \A r \in Drains : runs[r].st = "returned") =>
    /\ \A k \in AddedKeys :
         LET item == TableGet(table, StoreKey(KeyAsAgg(k)))
         IN /\ NumAttr(item, "call_count") = Cardinality(AddedWithKey(k))
            /\ SetAttr(item, "request_fields")
                 = UNION {added[i].request_fields : i \in AddedWithKey(k)}
            /\ SetAttr(item, "request_headers")
                 = UNION {added[i].request_headers : i \in AddedWithKey(k)}
            /\ SetAttr(item, "query_params")
                 = UNION {added[i].query_params : i \in AddedWithKey(k)}
            /\ SetAttr(item, "response_codes")
                 = {StrOfStatus(added[i].status_code) : i \in AddedWithKey(k)}
    /\ DOMAIN table = {StoreKey(KeyAsAgg(k)) : k \in AddedKeys}

\* two batches, one flushed in the background, both writing the same key
EndToEndCountsWitness ==
  /\ finalFlush
  /\ \A r \in Drains : runs[r].st = "returned"
  /\ nAdds = MaxAdds
  /\ \E r1, r2 \in Drains :
       /\ r1 # r2
       /\ ~runs[r1].sync
       /\ \E i \in 1..Len(runs[r1].writes), j \in 1..Len(runs[r2].writes) :
            /\ StoreKey(runs[r1].writes[i].agg) = StoreKey(runs[r2].writes[j].agg)
            /\ runs[r1].writes[i].agg.request_fields
                 # runs[r2].writes[j].agg.request_fields

\* the thread is inside the flush function (called, not yet returned or raised)
InFlushFn(t) ==
  /\ pc[t] = "flush_fn"
  /\ \E r \in Drains : runs[r].sync /\ runs[r].owner = t /\ runs[r].st = "writing"

\* the flush function call of run r never returns
Hung(r) == \E i \in 1..Len(runs[r].writes) : runs[r].writes[i].st = "hung"

\* C3 (as claimed): no thread holds the buffer lock while it executes the flush
\* function.
LockNotHeldInFlushFn == \A t \in Threads : ~(lock = t /\ InFlushFn(t))

\* C4 (as claimed): no add() waits for the lock behind a flush function that never
\* returns.
AddNeverBlockedByFlushFn ==
  \A t, u \in Threads :
    ~( /\ pc[t] = "add_wait"
       /\ lock = u
       /\ pc[u] = "flush_fn"
       /\ \E r \in Drains : runs[r].sync /\ runs[r].owner = u /\ Hung(r) )

\* C5 (flush function raising): no exception leaves add() or flush(), no flush
\* thread dies of one, and the lock is held only by a thread inside add() or
\* flush(), which goes on to release it.
FlushFailureContained ==
  /\ raised = {}
  /\ \A r \in Drains : runs[r].st # "propagated"
  /\ \A t \in Threads : lock = t => pc[t] \in {"add_unlock", "flush_fn", "flush_unlock"}
  /\ lock = None => \A t \in Threads : pc[t] \in {"idle", "add_wait", "flush_wait"}

\* the flush function raised on every call, the later call dispatched by an add()
\* made after the first failure
FlushFailureContainedWitness ==
  /\ Len(runs) >= 2
  /\ \A r \in Drains : runs[r].st = "caught"
  /\ ~runs[Len(runs)].sync
  /\ \A t \in Threads : pc[t] = "idle"
  /\ nAdds = MaxAdds

\* ------------------------------------------------- properties of the store
\* the AggregatedObservations written to key k, in arrival order
KeyLog(k) == SelectSeq(written, LAMBDA a : StoreKey(a) = k)

\* the item a lone write_observation(table, agg) leaves where item was (NoItem: absent)
ItemAfter(item, agg) ==
  LET tbl == IF DOMAIN item = {} THEN NoItem ELSE [k \in {StoreKey(agg)} |-> item]
  IN TableGet(write_observation(tbl, agg, ttl_days), StoreKey(agg))

RECURSIVE ItemAfterAll(_, _, _)
ItemAfterAll(item, log, i) ==
  IF i > Len(log) THEN item ELSE ItemAfterAll(ItemAfter(item, log[i]), log, i + 1)

RECURSIVE SumCounts(_, _)
SumCounts(log, i) == IF i > Len(log) THEN 0 ELSE log[i].call_count + SumCounts(log, i + 1)

SetAttrs == {"request_fields", "request_headers", "query_params", "response_codes"}

\* no write_observation is between two update_item calls
NoWriteInProgress == \A w \in Writers : wpc[w] = "calling" => wnext[w] = 1

\* the record the last two writes to k found, those two writes, and the item had
\* they arrived in the other order
Before2(k) == ItemAfterAll(NoItem, SubSeq(KeyLog(k), 1, Len(KeyLog(k)) - 2), 1)
Earlier(k) == KeyLog(k)[Len(KeyLog(k)) - 1]
Later(k) == KeyLog(k)[Len(KeyLog(k))]
Swapped(k) == ItemAfter(ItemAfter(Before2(k), Later(k)), Earlier(k))

CountsAddSetsUnion ==
  \A k \in DOMAIN table :
    LET log == KeyLog(k)
    IN NoWriteInProgress =>
         /\ table[k].call_count = SumCounts(log, 1)
         /\ SetAttr(table[k], "request_fields")
              = UNION {log[i].request_fields : i \in 1..Len(log)}
         /\ SetAttr(table[k], "request_headers")
              = UNION {log[i].request_headers : i \in 1..Len(log)}
         /\ SetAttr(table[k], "query_params")
              = UNION {log[i].query_params : i \in 1..Len(log)}
         /\ SetAttr(table[k], "response_codes")
              = UNION {log[i].response_codes : i \in 1..Len(log)}
         /\ (Len(log) = 2 /\ log[1] = log[2]) =>
              /\ table[k].call_count = 2 * log[1].call_count
              /\ SetAttr(table[k], "request_fields") = log[1].request_fields

\* the same AggregatedObservation, with names and a count of 2, written twice
CountsAddSetsUnionWitness ==
  \E k \in DOMAIN table :
    /\ NoWriteInProgress
    /\ Len(KeyLog(k)) = 2
    /\ KeyLog(k)[1] = KeyLog(k)[2]
    /\ KeyLog(k)[1].call_count = 2
    /\ KeyLog(k)[1].request_fields # {}
    /\ table[k].call_count = 4

NameSetAttrs == {"request_fields", "request_headers", "query_params"}

NoNames(agg) ==
  agg.request_fields = {} /\ agg.request_headers = {} /\ agg.query_params = {}

\* C8: no update_item call carries an empty set as an ADD operand, so the store
\* rejects none; no stored set is empty; a set attribute is absent as long as every
\* write to the key had it empty; a record with its three name sets empty, written
\* onto an absent record, is stored without those three attributes.
EmptySetsOmitted ==
  /\ \A w \in Writers :
       /\ wpc[w] # "rejected"
       /\ wpc[w] = "calling" => ~WriteRaises(wagg[w], ttl_days)
  /\ \A k \in DOMAIN table :
       LET log == KeyLog(k)
       IN \A a \in SetAttrs :
            /\ a \in DOMAIN table[k] => table[k][a] # {}
            /\ (\A i \in 1..Len(log) : log[i][a] = {}) => a \notin DOMAIN table[k]
  /\ \A i \in 1..Len(written) :
       (NoNames(written[i]) /\ KeyLog(StoreKey(written[i])) = << written[i] >>) =>
         /\ StoreKey(written[i]) \in DOMAIN table
         /\ DOMAIN table[StoreKey(written[i])] \cap NameSetAttrs = {}

\* a record with its three name sets empty was written onto an absent record
EmptySetsOmittedWitness ==
  \E w \in Writers, k \in DOMAIN table :
    /\ wpc[w] = "returned"
    /\ Len(KeyLog(k)) = 1
    /\ NoNames(KeyLog(k)[1])
    /\ table[k].call_count = KeyLog(k)[1].call_count
    /\ "request_fields" \notin DOMAIN table[k]

RECURSIVE TableAfterAll(_, _, _)
TableAfterAll(tbl, log, i) ==
  IF i > Len(log) THEN tbl
  ELSE TableAfterAll(write_observation(tbl, log[i], ttl_days), log, i + 1)

\* C9: a write_observation that returned made exactly one update_item call, and
\* under concurrent writers the table is always what the whole upserts begun so
\* far leave when applied one after the other: an item has all of last_seen,
\* first_seen, ttl and call_count, last_seen and ttl from one and the same write.
WholeUpserts ==
  /\ \A w \in Writers :
       /\ wpc[w] = "returned" => wnext[w] = 2
       /\ wpc[w] = "calling" => wnext[w] = 1
  /\ table = TableAfterAll(NoItem, written, 1)
  /\ \A k \in DOMAIN table :
       LET log == KeyLog(k)
       IN /\ {"PK", "SK", "last_seen", "first_seen", "ttl", "call_count"}
               \subseteq DOMAIN table[k]
          /\ Len(log) >= 1
          /\ table[k].last_seen = isoformat(log[Len(log)].last_seen)
          /\ table[k].ttl = TtlOf(log[Len(log)].last_seen, ttl_days)

\* both writers wrote, different records, to one key
WholeUpsertsWitness ==
  /\ \A w \in Writers : wpc[w] = "returned"
  /\ nWrites = MaxWrites
  /\ \E k \in DOMAIN table :
       /\ Len(KeyLog(k)) >= Cardinality(Writers)
       /\ Earlier(k) # Later(k)

\* C10: once an item has first_seen, no step changes it.
FirstSeenKept ==
  [][ \A k \in DOMAIN table :
        "first_seen" \in DOMAIN table[k] =>
          /\ k \in DOMAIN table'
          /\ "first_seen" \in DOMAIN table'[k]
          /\ table'[k].first_seen = table[k].first_seen ]_vars

\* a later write carried another first_seen and the item kept the first one
FirstSeenKeptWitness ==
  \E k \in DOMAIN table :
    /\ Len(KeyLog(k)) >= 2
    /\ Later(k).first_seen # KeyLog(k)[1].first_seen
    /\ DtLess(Later(k).first_seen, KeyLog(k)[1].first_seen)
    /\ table[k].first_seen = isoformat(KeyLog(k)[1].first_seen)

\* the epoch second of the instant a persisted isoformat string denotes
EpochSecondOf(iso) == iso[2]

\* C11: the item of a key has the last_seen of the write applied to it last,
\* whatever it held before, and its ttl is the epoch second of that persisted
\* last_seen plus ttl_days days.
TtlTracksLastSeen ==
  \A k \in DOMAIN table :
    LET log == KeyLog(k)
    IN Len(log) >= 1 =>
         /\ table[k].last_seen = isoformat(log[Len(log)].last_seen)
         /\ table[k].ttl = EpochSecondOf(table[k].last_seen) + ttl_days * SecondsPerDay

\* the write applied last carried an earlier last_seen than the one before it,
\* with microseconds, and the item took it
TtlTracksLastSeenWitness ==
  \E k \in DOMAIN table :
    /\ NoWriteInProgress
    /\ Len(KeyLog(k)) >= 2
    /\ DtLess(Later(k).last_seen, Earlier(k).last_seen)
    /\ Later(k).last_seen.us # 0
    /\ table[k].last_seen = isoformat(Later(k).last_seen)
    /\ table[k].ttl = Later(k).last_seen.sec + ttl_days * SecondsPerDay

\* C12: flush_observations submits one write_observation per aggregated record;
\* a write that raised leaves its record unwritten and stops no other write:
\* flush_observations returns, never raising, once every write returned or raised,
\* and the table holds exactly the records whose write returned.
FlushIsolatesFailures ==
  \A r \in Drains :
    LET writes == runs[r].writes
        aggregated == aggregate(runs[r].batch)
    IN /\ runs[r].st \in {"started", "writing", "returned"}
       /\ runs[r].st # "started" =>
            /\ Len(writes) = Len(aggregated)
            /\ \A i \in 1..Len(writes) : writes[i].agg = aggregated[i]
       /\ runs[r].st = "returned" =>
            \A i \in 1..Len(writes) : writes[i].st \in {"ok", "failed"}
       /\ \A i \in 1..Len(writes) :
            IF writes[i].st = "ok"
            THEN /\ StoreKey(writes[i].agg) \in DOMAIN table
                 /\ table[StoreKey(writes[i].agg)].call_count = writes[i].agg.call_count
            ELSE StoreKey(writes[i].agg) \notin DOMAIN table
       /\ Cardinality(DOMAIN table)
            = Cardinality({i \in 1..Len(writes) : writes[i].st = "ok"})

\* the first and the last write raised, one between them was applied, and
\* flush_observations returned
FlushIsolatesFailuresWitness ==
  \E r \in Drains :
    /\ runs[r].st = "returned"
    /\ Len(runs[r].writes) >= 3
    /\ runs[r].writes[1].st = "failed"
    /\ runs[r].writes[2].st = "ok"
    /\ runs[r].writes[Len(runs[r].writes)].st = "failed"
    /\ StoreKey(runs[r].writes[2].agg) \in DOMAIN table

\* C13: at no moment of a flush_observations call are more than 10
\* write_observation calls in flight, nor more than the batch has aggregated records.
InFlightBounded ==
  \A r \in Drains :
    /\ Cardinality(InFlight(r)) <= 10
    /\ Cardinality(InFlight(r)) <= Len(aggregate(runs[r].batch))

\* ten writes are in flight and a further record of the batch waits for a worker
InFlightBoundedWitness ==
  \E r \in Drains :
    /\ Cardinality(InFlight(r)) = 10
    /\ \E i \in 1..Len(runs[r].writes) : runs[r].writes[i].st = "pending"

\* C14: whichever writes of a flush_observations call never return (fewer than
\* the pool has workers), every other write of the call is eventually issued and
\* completed.
HungWriteIsolated ==
  <>[](\A r \in Drains :
         /\ runs[r].st \in {"writing", "returned"}
         /\ \A i \in 1..Len(runs[r].writes) : runs[r].writes[i].st \in {"ok", "hung"}
         /\ Cardinality(HungWrites(r)) <= MaxHangs)

\* the write issued first hangs, and every other write of a batch of more records
\* than the pool has workers was applied
HungWriteIsolatedWitness ==
  \E r \in Drains :
    /\ Len(runs[r].writes) > PoolCap
    /\ runs[r].writes[1].st = "hung"
    /\ \A i \in 2..Len(runs[r].writes) :
         /\ runs[r].writes[i].st = "ok"
         /\ StoreKey(runs[r].writes[i].agg) \in DOMAIN table

\* ------------------------------------------------ properties of aggregate
\* the calls in which aggregate has been applied, and its result
Applied == {r \in Drains : runs[r].st # "started"}
Aggregated(r) == [i \in 1..Len(runs[r].writes) |-> runs[r].writes[i].agg]

\* the (service_name, caller, method, path_template) of an observation or record
FourKey(o) == <<o.service_name, o.caller, o.method, o.path_template>>
KeysIn(list) == {FourKey(list[i]) : i \in 1..Len(list)}
WithKey(list, k) == {i \in 1..Len(list) : FourKey(list[i]) = k}

\* C15: aggregate returns one record per distinct key of its input and no two
\* records with one key: observations that differ in caller, method or path are
\* in separate records, observations that differ in status code only are in one,
\* and the empty list gives the empty list.
OneRecordPerKey ==
  \A r \in Applied :
    LET batch == runs[r].batch
        out == Aggregated(r)
    IN /\ KeysIn(out) = KeysIn(batch)
       /\ Len(out) = Cardinality(KeysIn(batch))
       /\ \A i, j \in 1..Len(out) : i # j => FourKey(out[i]) # FourKey(out[j])
       /\ batch = << >> => out = << >>
       /\ \A i, j \in 1..Len(batch) :
            Cardinality(WithKey(out, FourKey(batch[i])) \cup WithKey(out, FourKey(batch[j])))
              = IF \/ batch[i].caller # batch[j].caller
                   \/ batch[i].method # batch[j].method
                   \/ batch[i].path_template # batch[j].path_template
                   \/ batch[i].service_name # batch[j].service_name
                THEN 2 ELSE 1

\* two observations that differ in status code only and one of another caller
\* gave two records
OneRecordPerKeyWitness ==
  \E r \in Applied :
    LET batch == runs[r].batch
    IN /\ Len(batch) = 3
       /\ Len(Aggregated(r)) = 2
       /\ \E i, j \in 1..3 :
            /\ FourKey(batch[i]) = FourKey(batch[j])
            /\ batch[i].status_code # batch[j].status_code
            /\ batch[i].request_fields = batch[j].request_fields
       /\ \E i, j \in 1..3 : batch[i].caller # batch[j].caller

\* C16: each record's call_count is the number of input observations with the
\* record's key, at least 1, and the call_counts sum to the length of the input.
CountsMatchInput ==
  \A r \in Applied :
    LET batch == runs[r].batch
        out == Aggregated(r)
    IN /\ \A i \in 1..Len(out) :
            /\ out[i].call_count = Cardinality(WithKey(batch, FourKey(out[i])))
            /\ out[i].call_count >= 1
       /\ SumCounts(out, 1) = Len(batch)

\* a record merged from two observations beside a record of one
CountsMatchInputWitness ==
  \E r \in Applied :
    /\ Len(runs[r].batch) = 3
    /\ Len(Aggregated(r)) = 2
    /\ Aggregated(r)[1].call_count = 2
    /\ Aggregated(r)[2].call_count = 1

\* C17: each record's request_fields, request_headers and query_params are the
\* unions of those of the input observations with its key, and its response_codes
\* the set of their status codes as strings, never empty.
SetsAreUnions ==
  \A r \in Applied :
    LET batch == runs[r].batch
        out == Aggregated(r)
    IN \A i \in 1..Len(out) :
         LET same == WithKey(batch, FourKey(out[i]))
         IN /\ out[i].request_fields = UNION {batch[j].request_fields : j \in same}
            /\ out[i].request_headers = UNION {batch[j].request_headers : j \in same}
            /\ out[i].query_params = UNION {batch[j].query_params : j \in same}
            /\ out[i].response_codes = {StrOfStatus(batch[j].status_code) : j \in same}
            /\ out[i].response_codes # {}

\* differently shaped requests with two status codes collapsed into one record
SetsAreUnionsWitness ==
  \E r \in Applied :
    /\ Len(runs[r].batch) >= 2
    /\ Len(Aggregated(r)) = 1
    /\ Aggregated(r)[1].request_fields = {"f1", "f2"}
    /\ Aggregated(r)[1].request_headers = {"h1"}
    /\ Aggregated(r)[1].response_codes = {StrOfStatus(200), StrOfStatus(500)}

\* the record of key k in a list of AggregatedObservations with distinct keys
RecordOf(list, k) == list[CHOOSE i \in 1..Len(list) : FourKey(list[i]) = k]

\* C18: each record's first_seen is the earliest and its last_seen the latest
\* timestamp of the observations with its key, so first_seen <= last_seen, and
\* aggregate gives each key the same two in whatever order the list is.
SeenSpansTimestamps ==
  \A r \in Applied :
    LET batch == runs[r].batch
        out == Aggregated(r)
    IN /\ \A i \in 1..Len(out) :
            LET same == WithKey(batch, FourKey(out[i]))
            IN /\ \E j \in same : batch[j].timestamp = out[i].first_seen
               /\ \E j \in same : batch[j].timestamp = out[i].last_seen
               /\ \A j \in same :
                    /\ ~DtLess(batch[j].timestamp, out[i].first_seen)
                    /\ ~DtLess(out[i].last_seen, batch[j].timestamp)
               /\ ~DtLess(out[i].last_seen, out[i].first_seen)
       /\ \A p \in Permutations(1..Len(batch)) :
            LET permuted == aggregate([i \in 1..Len(batch) |-> batch[p[i]]])
            IN /\ KeysIn(permuted) = KeysIn(out)
               /\ \A i \in 1..Len(permuted) :
                    /\ permuted[i].first_seen = RecordOf(out, FourKey(permuted[i])).first_seen
                    /\ permuted[i].last_seen = RecordOf(out, FourKey(permuted[i])).last_seen

\* three observations of one key, the latest first and the earliest second
SeenSpansTimestampsWitness ==
  \E r \in Applied :
    LET batch == runs[r].batch
    IN /\ Len(batch) = 3
       /\ Len(Aggregated(r)) = 1
       /\ DtLess(batch[2].timestamp, batch[3].timestamp)
       /\ DtLess(batch[3].timestamp, batch[1].timestamp)
       /\ Aggregated(r)[1].first_seen = batch[2].timestamp
       /\ Aggregated(r)[1].last_seen = batch[1].timestamp

\* two records of one key combined: counts added, sets unioned, first_seen the
\* minimum, last_seen the maximum
Combined(x, y) ==
  [x EXCEPT
   !.request_fields = @ \cup y.request_fields,
   !.request_headers = @ \cup y.request_headers,
   !.query_params = @ \cup y.query_params,
   !.response_codes = @ \cup y.response_codes,
   !.call_count = @ + y.call_count,
   !.first_seen = IF DtLess(y.first_seen, @) THEN y.first_seen ELSE @,
   !.last_seen = IF DtLess(@, y.last_seen) THEN y.last_seen ELSE @]

\* the record of key k after combining two aggregate results per key
CombinedRecord(outA, outB, k) ==
  IF k \in KeysIn(outA) /\ k \in KeysIn(outB)
  THEN Combined(RecordOf(outA, k), RecordOf(outB, k))
  ELSE IF k \in KeysIn(outA) THEN RecordOf(outA, k) ELSE RecordOf(outB, k)

\* C19: for every split of the list into A ++ B, aggregate(A) and aggregate(B)
\* combined per key have the keys of aggregate(A ++ B) and, for each key, its
\* call_count, its four sets, and its first_seen and last_seen.
MergeAssociative ==
  \A r \in Applied :
    LET batch == runs[r].batch
        out == Aggregated(r)
    IN \A n \in 0..Len(batch) :
         LET outA == aggregate(SubSeq(batch, 1, n))
             outB == aggregate(SubSeq(batch, n + 1, Len(batch)))
         IN /\ KeysIn(outA) \cup KeysIn(outB) = KeysIn(out)
            /\ \A i \in 1..Len(out) :
                 CombinedRecord(outA, outB, FourKey(out[i])) = out[i]

\* a key with observations in both parts of the split and a key in one part only
MergeAssociativeWitness ==
  \E r \in Applied :
    LET batch == runs[r].batch
    IN /\ Len(batch) = 3
       /\ Len(Aggregated(r)) = 2
       /\ FourKey(batch[1]) = FourKey(batch[3])
       /\ FourKey(batch[1]) # FourKey(batch[2])
       /\ batch[1].request_fields # batch[3].request_fields
       /\ RecordOf(Aggregated(r), FourKey(batch[1])).call_count = 2

\* ------------------------------------------------ order of the batches
\* the drained batches from the r-th on, concatenated in drain order
RECURSIVE BatchesFrom(_)
BatchesFrom(r) == IF r > Len(runs) THEN << >> ELSE runs[r].batch \o BatchesFrom(r + 1)

\* C20: the drained batches, concatenated in drain order and followed by what the
\* buffer still holds, are the observations in the order add() appended them: each
\* batch is a contiguous run of that order, in that order, and none is empty.
BatchesInAppendOrder ==
  /\ BatchesFrom(1) \o observations = added
  /\ \A r \in Drains : runs[r].batch # << >>

\* two threads' add() calls appended in the opposite order to that in which they
\* were called, and the flush function was handed both observations in one batch
BatchesInAppendOrderWitness ==
  \E r \in Handed :
    /\ Len(runs[r].batch) = 2
    /\ runs[r].batch[1].id > runs[r].batch[2].id
    /\ added = runs[r].batch

\* ------------------------------------------------ flush() on the calling thread
\* the flush() calls that drained a non-empty buffer
SyncDrains == {r \in Drains : runs[r].sync}

\* C21: flush() runs the flush function on the calling thread: the batch a flush()
\* call drains is the whole content of the buffer, and until the flush function
\* has returned or raised for that batch the caller is still inside flush(); once
\* flush() has returned the call is over, and at no moment is an observation of
\* the batch in the buffer.
FlushIsSynchronous ==
  /\ [](\A r \in SyncDrains :
         /\ runs[r].st \in {"started", "writing"} =>
              /\ pc[runs[r].owner] = "flush_fn"
              /\ \A q \in SyncDrains : runs[q].owner = runs[r].owner => q <= r
         /\ pc[runs[r].owner] # "flush_fn" => runs[r].st \in {"returned", "caught"}
         /\ \A i \in 1..Len(runs[r].batch) : InBuffer(runs[r].batch[i].id) = {})
  /\ [][\A t \in Threads :
         pc[t] = "flush_wait" /\ pc'[t] # "flush_wait" =>
           /\ observations' = << >>
           /\ IF observations = << >>
              THEN runs' = runs /\ pc'[t] = "flush_unlock"
              ELSE /\ Len(runs') = Len(runs) + 1
                   /\ runs'[Len(runs')].batch = observations
                   /\ runs'[Len(runs')].sync
                   /\ runs'[Len(runs')].owner = t
                   /\ pc'[t] = "flush_fn"]_vars

\* a flush() that drained what add() had left in the buffer has returned after
\* the flush function wrote it
FlushIsSynchronousWitness ==
  /\ \E r \in SyncDrains :
       /\ runs[r].writes # << >>
       /\ runs[r].st = "returned"
       /\ \A i \in 1..Len(runs[r].writes) : runs[r].writes[i].st = "ok"
       /\ pc[runs[r].owner] = "idle"
  /\ observations = << >>

\* ------------------------------------------------ the flush predicate of add()
\* C22: add() appends its observation and dispatches a background flush exactly
\* when, after the append, len(buffer) >= max_size or now - last_flush >=
\* flush_interval: then the whole content, the new observation last, is the batch
\* of a new background flush, the buffer is empty and last_flush is now; otherwise
\* no flush is added and the buffer is its old content with the observation
\* appended, last_flush unchanged.
AddDispatchesOnPredicate ==
  [][\A t \in Threads :
       pc[t] = "add_wait" /\ pc'[t] # "add_wait" =>
         LET content == Append(observations, arg[t])
         IN IF Len(content) >= max_size \/ now - last_flush >= flush_interval
            THEN /\ observations' = << >>
                 /\ last_flush' = now
                 /\ Len(runs') = Len(runs) + 1
                 /\ SubSeq(runs', 1, Len(runs)) = runs
                 /\ runs'[Len(runs')].batch = content
                 /\ ~runs'[Len(runs')].sync
                 /\ runs'[Len(runs')].st = "started"
            ELSE /\ observations' = content
                 /\ last_flush' = last_flush
                 /\ runs' = runs]_vars

\* one add() dispatched on the interval alone, below max_size, and a later one
\* dispatched nothing
AddDispatchesOnPredicateWitness ==
  /\ \E r \in Drains : ~runs[r].sync /\ Len(runs[r].batch) < max_size
  /\ observations # << >>
  /\ \A t \in Threads : pc[t] = "idle"
  /\ nFlushes = 0

\* ------------------------------------------------ a failed batch is dropped
\* the calls of the flush function that raised
Failed == {r \in Drains : runs[r].st = "caught"}

\* C23: a batch whose flush failed is dropped: none of its observations is in the
\* buffer or in any other batch, then or later; a batch already handed to the
\* flush function is never handed to it again, and once the call is over nothing
\* about it changes.
FailedBatchDropped ==
  /\ [](\A r \in Failed : \A i \in 1..Len(runs[r].batch) :
         /\ InBuffer(runs[r].batch[i].id) = {}
         /\ InBatches(runs[r].batch[i].id, Drains \ {r}) = {})
  /\ [][\A r \in Drains :
         /\ r \in 1..Len(runs') /\ runs'[r].batch = runs[r].batch
         /\ r \in Handed => runs'[r].st # "started"
         /\ runs[r].st \in {"caught", "returned"} => runs'[r] = runs[r]]_vars

\* the flush function raised for the first batch, and was later called with the
\* batch of a later add() and returned; every add() and flush() has returned
FailedBatchDroppedWitness ==
  /\ \E r \in Failed : \E q \in Drains : r < q /\ runs[q].st = "returned"
  /\ \A t \in Threads : pc[t] = "idle"
  /\ observations = << >>

\* ------------------------------------------------ size of the buffer
\* C30: whenever no thread holds the buffer lock, the buffer holds fewer than
\* max_size observations, whatever the flush function does with the batches.
BufferBelowMaxSize == lock = None => Len(observations) < max_size

\* the flush function never returned for a batch, every add() was made and has
\* returned, and the free buffer holds max_size - 1 observations
BufferBelowMaxSizeWitness ==
  /\ lock = None
  /\ Len(observations) = max_size - 1
  /\ nAdds = MaxAdds
  /\ \A t \in Threads : pc[t] = "idle"
  /\ \E r \in Drains : Hung(r)

\* ------------------------------------------------ latency to flush
\* C29: an observation that is in the buffer when flush_interval has elapsed
\* since the last flush is eventually handed to the flush function, whether or
\* not add() or flush() is called again.
BoundedFlushLatency ==
  \A id \in 1..MaxAdds :
    (InBuffer(id) # {} /\ now - last_flush >= flush_interval)
      ~> (InBatches(id, Handed) # {})

\* ------------------------------------------------ properties of fetch_service_data
\* the records of the service's partition, in key order
Partition == Matching(stored, PartitionKey(ServiceName))

RECURSIVE Flatten(_)
Flatten(seqs) == IF seqs = << >> THEN << >> ELSE Head(seqs) \o Flatten(Tail(seqs))

\* C24: whatever the page boundaries, the list fetch_service_data returns is the
\* items of the pages it read, concatenated in page order, and is the service's
\* partition: each of its records once, none of another service; the page read
\* last is the only one that came without a cursor.
FetchFollowsCursor ==
  /\ fetch.at = "returned" =>
       /\ fetch.items = Flatten(fetch.pages)
       /\ fetch.items = Partition
       /\ fetch.last_key = NoKey
  /\ fetch.at = "querying" /\ fetch.pages # << >> => fetch.last_key # NoKey

\* the records of the service came in pages of one, with one more, empty page
\* to end, from a table that also holds another service's records
FetchFollowsCursorWitness ==
  /\ fetch.at = "returned"
  /\ Len(fetch.pages) = MaxItems + 1
  /\ fetch.pages[MaxItems + 1] = << >>
  /\ Len(fetch.items) = MaxItems
  /\ Len(stored) > MaxItems

\* C35: fetch_service_data issued one query for each page it read (and one more
\* when the last query raised); the first query carries no cursor, each later
\* one the cursor that came with the page before it, and all the same partition
\* condition; every page but the last came with a cursor, and the call returns
\* exactly when a page came without one.
OneQueryPerPage ==
  /\ Len(fetch.cursors) = Len(fetch.pages)
  /\ Len(fetch.queries) = Len(fetch.pages) + (IF fetch.failed THEN 1 ELSE 0)
  /\ \A i \in 1..Len(fetch.queries) :
       /\ fetch.queries[i].KeyConditionExpression = PartitionKey(ServiceName)
       /\ fetch.queries[i].ExclusiveStartKey =
            (IF i = 1 THEN NoKey ELSE fetch.cursors[i - 1])
  /\ \A i \in 1..(Len(fetch.cursors) - 1) : fetch.cursors[i] # NoKey
  /\ fetch.at = "returned" <=>
       fetch.cursors # << >> /\ fetch.cursors[Len(fetch.cursors)] = NoKey
  /\ fetch.at = "querying" => ~fetch.failed

\* three queries: the second and the third carried the cursors of the first and
\* the second page, and the third page came without a cursor
OneQueryPerPageWitness ==
  /\ fetch.at = "returned"
  /\ Len(fetch.queries) = 3
  /\ fetch.queries[2].ExclusiveStartKey # NoKey
  /\ fetch.queries[3].ExclusiveStartKey # fetch.queries[2].ExclusiveStartKey
  /\ fetch.pages[3] # << >>

\* C25: when a query raised, for the first page or a later one, fetch_service_data
\* raised and its caller got no list; a list is returned only when no query
\* raised and the whole partition has been read.
NoPartialFetch ==
  /\ fetch.failed => fetch.at = "raised" /\ cmd.items = << >> /\ cmd.at # "writing"
  /\ fetch.at = "returned" => ~fetch.failed /\ Len(fetch.items) = Len(Partition)
  /\ cmd.at = "writing" => cmd.items = Partition

\* the query for a second page raised after the first page brought items, and
\* the command ended with the failure
NoPartialFetchWitness ==
  /\ fetch.failed
  /\ Len(fetch.pages) = 1
  /\ fetch.items # << >>
  /\ cmd.at = "exited"
  /\ cmd.failure = "fetch"

\* ------------------------------------------------ properties of the hook command
\* C27: the hook command ends with status 0 whether the sync worked or not: when
\* fetching, or rendering and writing, raised, it reports the failure as
\* non-fatal and still exits with status 0.
HookNeverFails ==
  cmd.name = "hook" /\ cmd.at = "exited" =>
    /\ cmd.exit = 0
    /\ cmd.failure # None => cmd.err = "non-fatal"
    /\ cmd.failure = None => cmd.err = None

\* hook ended after fetch_service_data raised on a later page
HookNeverFailsWitness ==
  /\ cmd.name = "hook"
  /\ cmd.at = "exited"
  /\ cmd.failure = "fetch"
  /\ fetch.pages # << >>
  /\ cmd.exit = 0

LambdaFlushedOnReturn ==
  (adapter = "lambda" /\ \A t \in Threads : Over(t)) =>
    /\ observations = << >>
    /\ \A r \in Drains : runs[r].sync /\ runs[r].st \in {"returned", "caught"}

\* ------------------------------------------------ order of the persisted instants
\* a persisted isoformat string denotes an instant no later than another's
IsoNotAfter(a, b) == a[2] < b[2] \/ (a[2] = b[2] /\ a[3] <= b[3])

\* C31: every AggregatedObservation written has first_seen <= last_seen, and in
\* every item of the table the persisted first_seen is no later than the
\* persisted last_seen, in whatever order the upserts arrived.
PersistedSeenOrdered ==
  /\ \A i \in 1..Len(written) : ~DtLess(written[i].last_seen, written[i].first_seen)
  /\ \A k \in DOMAIN table :
       {"first_seen", "last_seen"} \subseteq DOMAIN table[k] =>
         IsoNotAfter(table[k].first_seen, table[k].last_seen)

\* ------------------------------------------------ nothing is flushed for nothing
\* C32: the buffer never calls the flush function with an empty batch: an add()
\* or flush() step that adds a call adds one with a batch that is not empty, and
\* a flush() that finds the buffer empty adds none and goes on to return; a
\* flush_observations call whose aggregation yields no record issues no write;
\* and the table changes only by a write issued for a record.
NothingFlushedForNothing ==
  /\ [](\A r \in Drains :
         aggregate(runs[r].batch) = << >> =>
           runs[r].writes = << >> /\ runs[r].st \in {"started", "writing", "returned"})
  /\ [][/\ Len(runs') > Len(runs) => runs'[Len(runs')].batch # << >>
        /\ \A t \in Threads :
             pc[t] = "flush_wait" /\ pc'[t] # "flush_wait" /\ observations = << >> =>
               runs' = runs /\ pc'[t] = "flush_unlock"
        /\ table' # table =>
             \E r \in Drains : \E i \in 1..Len(runs[r].writes) :
               runs[r].writes[i].st = "pending" /\ runs'[r].writes[i].st # "pending"]_vars

\* the flush function returned for the empty list without writing, a flush() on
\* the empty buffer returned without calling it, and nothing is in the table
NothingFlushedForNothingWitness ==
  /\ Len(runs) = 1
  /\ runs[1].batch = << >>
  /\ runs[1].st = "returned"
  /\ nFlushes >= 1
  /\ \A t \in Threads : pc[t] = "idle"
  /\ table = NoItem

\* ------------------------------------------------------------ the store key
NoDelimiter(str) == \A i \in 1..Len(str) : str[i] # Delimiter

\* the records written so far to the item with key k
WrittenTo(k) == {i \in 1..Len(written) : StoreKey(written[i]) = k}

\* C33: records whose method and path template hold no '#' and whose
\* (service_name, caller, method, path_template) differ are written to
\* different (PK, SK) items, also when the caller holds '#': the table has one
\* item per distinct key written, and every item counts the calls of the
\* records of one key only.
StoreKeyInjective ==
  /\ \A i, j \in 1..Len(written) :
       /\ NoDelimiter(written[i].method) /\ NoDelimiter(written[i].path_template)
       /\ NoDelimiter(written[j].method) /\ NoDelimiter(written[j].path_template)
       /\ FourKey(written[i]) # FourKey(written[j])
       => StoreKey(written[i]) # StoreKey(written[j])
  /\ Cardinality(DOMAIN table) = Cardinality(KeysIn(written))
  /\ \A k \in DOMAIN table :
       /\ Cardinality({FourKey(written[i]) : i \in WrittenTo(k)}) = 1
       /\ table[k].call_count = Cardinality(WrittenTo(k))

\* two records that differ in the caller only, one caller holding '#', are in
\* two items
StoreKeyInjectiveWitness ==
  /\ Len(written) = 2
  /\ written[1].caller = <<"a", Delimiter>>
  /\ written[2].caller = <<"a">>
  /\ written[1].method = <<"a">> /\ written[2].method = << >>
  /\ written[1].path_template = written[2].path_template
  /\ written[1].service_name = written[2].service_name
  /\ Cardinality(DOMAIN table) = 2

\* ------------------------------------------------------- reading the key back
\* C34: for every record written with a method and a path template that hold no
\* '#', transform_items recovers from the SK of the record's item the caller,
\* the method and the path template that were written, whatever the caller.
KeyRoundTrip ==
  \A k \in DOMAIN table : \A i \in WrittenTo(k) :
    NoDelimiter(written[i].method) /\ NoDelimiter(written[i].path_template) =>
      ParsedKey(k.SK) = [skipped |-> FALSE, caller |-> written[i].caller,
                         method |-> written[i].method,
                         path |-> written[i].path_template]

\* ------------------------------------------------------ the hook's cache file
\* the cache file holds a time less than cache_minutes before t
WithinCacheMinutes(file, t) ==
  file.exists /\ file.valid /\ t < file.last_sync + cache_minutes

HookBegins == cmd.at \in {"idle", "exited"} /\ cmd' # cmd /\ cmd'.name = "hook"
HookEnds == cmd.name = "hook" /\ cmd.at # "exited" /\ cmd'.at = "exited"

\* C36: the hook command syncs only when its cache is stale. A hook run that
\* completes its sync records the time at which it did; a hook run begun less
\* than cache_minutes after the recorded time ends at once and makes no store
\* read, and a hook run is never reading the store within cache_minutes of the
\* recorded time; a hook run whose sync fails records no time, the cache is
\* stale after it, and the next configured hook run attempts the sync again.
HookSyncsWhenStale ==
  /\ [](cmd.name = "hook" /\ cmd.at = "fetching" => ~WithinCacheMinutes(cache_file, now))
  /\ [](cmd.name = "hook" /\ cmd.at = "exited" /\ cmd.failure # None =>
         ~WithinCacheMinutes(cache_file, now))
  /\ [][/\ HookEnds /\ cmd.at = "writing" /\ cmd'.failure = None =>
             cache_file' = [exists |-> TRUE, valid |-> TRUE, last_sync |-> now]
        /\ HookEnds /\ cmd'.failure # None =>
             cache_file' = cache_file \/ ~cache_file'.valid
        /\ HookBegins /\ WithinCacheMinutes(cache_file, now) =>
             cmd'.at = "exited" /\ fetch'.queries = << >> /\ cache_file' = cache_file
        /\ HookBegins /\ cmd.name = "hook" /\ cmd.failure # None
             /\ cmd'.skipped # "unconfigured" =>
             cmd'.at = "fetching" /\ fetch'.at = "querying"
        /\ cache_file' # cache_file => HookEnds /\ cmd.at = "writing"]_vars

\* a hook run synced and recorded the time, and the hook run after it, within
\* cache_minutes, ended without a store read
HookSyncsWhenStaleWitness ==
  /\ cmd.name = "hook"
  /\ cmd.at = "exited"
  /\ cmd.skipped = "fresh"
  /\ cache_file = CacheFile(1)
  /\ now = 1
  /\ fetch.queries = << >>

====
